---- MODULE Spec2Model ----
(***************************************************************************)
(* A model of the solang-parser parse tree (pt.rs) and of its codegen      *)
(* builders (codegen.rs).                                                  *)
(*                                                                         *)
(* The library is a set of pure functions over immutable trees, so every   *)
(* specification below draws the inputs of a group of functions in its     *)
(* initial states and has one action per function that is called.  Each    *)
(* group owns a few variables; a specification of one group keeps the      *)
(* variables of the other groups at rest.                                  *)
(*                                                                         *)
(* Encoding of Rust values:                                                *)
(*   enum / struct value   a record with a "tag" field and the fields of   *)
(*                         the variant under the names pt.rs gives them    *)
(*   Option<T>             a sequence: <<>> is None, <<x>> is Some(x)      *)
(*   Vec<T>                a sequence                                      *)
(*   String                a sequence of one-character strings             *)
(*   a call that can panic [ok |-> TRUE, val |-> v] or [ok |-> FALSE]      *)
(***************************************************************************)
EXTENDS Integers, Sequences, FiniteSets, TLC

VARIABLES
    locA, locB, locOut,     \* Loc group: two Loc values and the last result
    node, held, prev, calls, nodeOut,
                            \* Node group: the node given, the reference a
                            \* caller holds into it, the reference held
                            \* before the last call, the calls made, and
                            \* the last result of loc()
    idPath, idPathOut,      \* Path group: an IdentifierPath and its Display
    cgCall, cgOut,          \* Codegen group: the builder called, its result
    eqA, eqB, eqOut,        \* Eq group: two nodes of a type and a == b
    prSrc, prTree, prText, prTree2,
                            \* Print group: a source text, its parse, the
                            \* display of the tree, the parse of that
    keyIn, keyOut,
                            \* Key group: a heap of definitions with two
                            \* references into it, and the last result
    docIn, docOut,
                            \* Doc group: a node with what it was built to
                            \* hold, and what display gave for it
    tmF, tmWorker, tmChan, tmCaller
                            \* Timeout group: the closure given to
                            \* timeout_after, the spawned thread, the
                            \* channel and the calling thread

vars ==
    <<locA, locB, locOut, node, held, prev, calls, nodeOut, idPath, idPathOut,
      cgCall, cgOut, eqA, eqB, eqOut, prSrc, prTree, prText, prTree2,
      keyIn, keyOut,
      docIn, docOut,
      tmF, tmWorker, tmChan, tmCaller>>

Idle == [op |-> "idle"]
None == <<>>
Some(x) == <<x>>
Ok(v) == [ok |-> TRUE, val |-> v]
Panic == [ok |-> FALSE]

\* The variables of every group but g are at rest: no value is under test
\* there and no call has been made.
Resting(g) ==
    /\ g = "Loc" \/ (locA = Idle /\ locB = Idle /\ locOut = Idle)
    /\ g = "Node" \/ (/\ node = Idle /\ held = Idle /\ prev = Idle
                      /\ calls = 0 /\ nodeOut = Idle)
    /\ g = "Path" \/ (idPath = Idle /\ idPathOut = Idle)
    /\ g = "Codegen" \/ (cgCall = Idle /\ cgOut = Idle)
    /\ g = "Eq" \/ (eqA = Idle /\ eqB = Idle /\ eqOut = Idle)
    /\ g = "Print" \/ (/\ prSrc = Idle /\ prTree = Idle /\ prText = Idle
                       /\ prTree2 = Idle)
    /\ g = "Key" \/ (keyIn = Idle /\ keyOut = Idle)
    /\ g = "Doc" \/ (docIn = Idle /\ docOut = Idle)
    /\ g = "Timeout" \/ (tmF = Idle /\ tmWorker = Idle /\ tmChan = Idle /\ tmCaller = Idle)

\* A call of group g reads and writes the variables of g only.
OthersUnchanged(g) ==
    /\ IF g = "Loc" THEN TRUE ELSE UNCHANGED <<locA, locB, locOut>>
    /\ IF g = "Node" THEN TRUE
       ELSE UNCHANGED <<node, held, prev, calls, nodeOut>>
    /\ IF g = "Path" THEN TRUE ELSE UNCHANGED <<idPath, idPathOut>>
    /\ IF g = "Codegen" THEN TRUE ELSE UNCHANGED <<cgCall, cgOut>>
    /\ IF g = "Eq" THEN TRUE ELSE UNCHANGED <<eqA, eqB, eqOut>>
    /\ IF g = "Print" THEN TRUE
       ELSE UNCHANGED <<prSrc, prTree, prText, prTree2>>
    /\ IF g = "Key" THEN TRUE ELSE UNCHANGED <<keyIn, keyOut>>
    /\ IF g = "Doc" THEN TRUE ELSE UNCHANGED <<docIn, docOut>>
    /\ IF g = "Timeout" THEN TRUE ELSE UNCHANGED <<tmF, tmWorker, tmChan, tmCaller>>

(***************************************************************************)
(* Bounds                                                                  *)
(***************************************************************************)
MaxFileNo == 1
MaxOffset == 2
MaxParens == 2      \* Parenthesis layers wrapped around an input expression
MaxLits == 2        \* parts of a string-literal or hex-literal sequence
MaxCalls == 3       \* successive calls of remove_parenthesis
MaxIdents == 3      \* identifiers of an IdentifierPath
MaxList == 2        \* elements of a list given to a codegen builder
MaxParts == 2       \* parts of a contract in a source text
MaxAllocs == 2      \* definitions allocated on the heap of the Key group
MaxDepth == 2       \* nodes wrapped around a construct given to display
MaxSteps == 2       \* steps of the closure a worker thread runs

(***************************************************************************)
(* Loc                                                                     *)
(***************************************************************************)
LocBuiltin == [tag |-> "Builtin"]
LocCommandLine == [tag |-> "CommandLine"]
LocImplicit == [tag |-> "Implicit"]
LocCodegen == [tag |-> "Codegen"]
LocFile(file_no, start, end) ==
    [tag |-> "File", file_no |-> file_no, start |-> start, end |-> end]

Loc ==
    {LocBuiltin, LocCommandLine, LocImplicit, LocCodegen}
    \cup {LocFile(f, s, e) : f \in 0..MaxFileNo, s \in 0..MaxOffset, e \in 0..MaxOffset}

\* derive(PartialEq) on Loc would have compared variant and fields.
LocEqDerived(a, b) == a = b

\* impl PartialEq for Loc: eq(&self, _) is true.
LocEq(a, b) == TRUE

\* The position of a variant in the enum, which derive(Hash) feeds first.
LocDiscriminant(l) ==
    CASE l.tag = "Builtin" -> 0
      [] l.tag = "CommandLine" -> 1
      [] l.tag = "Implicit" -> 2
      [] l.tag = "Codegen" -> 3
      [] l.tag = "File" -> 4

\* derive(Hash) on Loc: hash(&self, state) writes the discriminant and then
\* every field of the variant to the Hasher; the value is the words written.
LocHash(l) ==
    IF l.tag = "File"
    THEN <<LocDiscriminant(l), l.file_no, l.start, l.end>>
    ELSE <<LocDiscriminant(l)>>

\* derive(PartialOrd, Ord) on Loc: the variants in the order of the enum,
\* then the fields of File from left to right.  a < b is
\* partial_cmp(a, b) == Some(Less), that is compare(a, b) == Less.
LocCmp(a, b) ==
    LET Lex(x, y) ==
            LET i == CHOOSE k \in 1..(Len(x) + 1) :
                        /\ \A j \in 1..(k - 1) : x[j] = y[j]
                        /\ k <= Len(x) => x[k] # y[k]
            IN  IF i > Len(x) THEN "Equal"
                ELSE IF x[i] < y[i] THEN "Less" ELSE "Greater"
        da == LocDiscriminant(a)
        db == LocDiscriminant(b)
    IN  IF da # db THEN (IF da < db THEN "Less" ELSE "Greater")
        ELSE IF a.tag = "File"
             THEN Lex(<<a.file_no, a.start, a.end>>, <<b.file_no, b.start, b.end>>)
             ELSE "Equal"

\* A begin_range that collapses the range to its end.
begin_range_at_end(self) ==
    IF self.tag = "File" THEN LocFile(self.file_no, self.end, self.end)
    ELSE self

\* Loc::begin_range
begin_range(self) ==
    IF self.tag = "File" THEN LocFile(self.file_no, self.start, self.start)
    ELSE self

\* Loc::end_range
end_range(self) ==
    IF self.tag = "File" THEN LocFile(self.file_no, self.end, self.end)
    ELSE self

\* A use_end_from that takes the file of other with its end.
use_end_from_with_file(self, other) ==
    IF self.tag = "File" /\ other.tag = "File"
    THEN Ok(LocFile(other.file_no, self.start, other.end))
    ELSE Panic

\* Loc::use_end_from: self after the call, or the panic of unreachable!()
use_end_from(self, other) ==
    IF self.tag = "File" /\ other.tag = "File"
    THEN Ok(LocFile(self.file_no, self.start, other.end))
    ELSE Panic

\* Loc::use_start_from: self after the call, or the panic of unreachable!()
use_start_from(self, other) ==
    IF self.tag = "File" /\ other.tag = "File"
    THEN Ok(LocFile(self.file_no, other.start, self.end))
    ELSE Panic

(***************************************************************************)
(* Expression                                                              *)
(***************************************************************************)
\* The locations the input trees are built with: a synthetic one and a
\* parsed one.
NodeLocs == {LocCodegen, LocFile(0, 0, 1)}

Identifier(loc, name) == [tag |-> "Identifier", loc |-> loc, name |-> name]

\* The variants Expression(Loc, Box<Expression>).
UnaryTags ==
    {"PostIncrement", "PostDecrement", "New", "Parenthesis", "Not",
     "Complement", "Delete", "PreIncrement", "PreDecrement", "UnaryPlus",
     "UnaryMinus"}

\* The variants Expression(Loc, Box<Expression>, Box<Expression>).
BinaryTags ==
    {"Power", "Multiply", "Divide", "Modulo", "Add", "Subtract", "ShiftLeft",
     "ShiftRight", "BitwiseAnd", "BitwiseXor", "BitwiseOr", "Less", "More",
     "LessEqual", "MoreEqual", "Equal", "NotEqual", "And", "Or", "Assign",
     "AssignOr", "AssignAnd", "AssignXor", "AssignShiftLeft",
     "AssignShiftRight", "AssignAdd", "AssignSubtract", "AssignMultiply",
     "AssignDivide", "AssignModulo"}

Parenthesis(loc, expr) == [tag |-> "Parenthesis", loc |-> loc, expr |-> expr]
FunctionCall(loc, fn, args) ==
    [tag |-> "FunctionCall", loc |-> loc, fn |-> fn, args |-> args]
ExprType(loc, ty) == [tag |-> "Type", loc |-> loc, ty |-> ty]
Variable(id) == [tag |-> "Variable", id |-> id]

\* v[0].loc: indexing an empty Vec panics.
FirstLocIndexed(v) == IF Len(v) = 0 THEN Panic ELSE Ok(v[1].loc)

\* impl CodeLocation for Expression: StringLiteral(Vec<StringLiteral>) and
\* HexLiteral(Vec<HexLiteral>) hold their parts in lits.
ExprLoc(e) ==
    CASE e.tag = "StringLiteral" -> FirstLocIndexed(e.lits)
      [] e.tag = "HexLiteral" -> FirstLocIndexed(e.lits)
      [] e.tag = "Variable" -> Ok(e.id.loc)
      [] OTHER -> Ok(e.loc)

\* A remove_parenthesis that unwraps any one-operand variant.
RemoveUnaryWrapper(e) == IF e.tag \in UnaryTags THEN e.expr ELSE e

\* A remove_parenthesis that peels every layer.
RemoveAllParenthesis(e) ==
    LET RECURSIVE Peel(_)
        Peel(x) == IF x.tag = "Parenthesis" THEN Peel(x.expr) ELSE x
    IN  Peel(e)

\* Expression::remove_parenthesis
RemoveParenthesis(e) == IF e.tag = "Parenthesis" THEN e.expr ELSE e

(***************************************************************************)
(* Statement and YulStatement                                              *)
(***************************************************************************)
Block(loc, unchecked, statements) ==
    [tag |-> "Block", loc |-> loc, unchecked |-> unchecked,
     statements |-> statements]
Emit(loc, expr) == [tag |-> "Emit", loc |-> loc, expr |-> expr]

\* impl CodeLocation for Statement: every variant holds its loc.
StmtLoc(s) == Ok(s.loc)

\* YulStatement::loc: the variants that wrap a struct (inner) take its loc.
YulStmtLoc(s) ==
    IF s.tag \in {"Block", "FunctionDefinition", "FunctionCall", "For", "Switch"}
    THEN Ok(s.inner.loc)
    ELSE Ok(s.loc)

(***************************************************************************)
(* Inputs of the Node group                                                *)
(***************************************************************************)
RECURSIVE SeqsUpTo(_, _)
\* The sequences over S of length 0..n.
SeqsUpTo(S, n) ==
    IF n = 0 THEN {<<>>}
    ELSE LET shorter == SeqsUpTo(S, n - 1)
         IN  shorter \cup {Append(q, x) : q \in {r \in shorter : Len(r) = n - 1}, x \in S}

\* Expressions of every variant: the leaves, the one-level expressions over
\* a leaf and a grouped leaf, and all of them under 0..MaxParens layers of
\* Parenthesis.
ExprInputs ==
    LET VarX == Variable(Identifier(LocCodegen, <<"x">>))
        IdentX == Identifier(LocCodegen, <<"x">>)
        Operands == {VarX, Parenthesis(LocCodegen, VarX)}
        Lit(tag, l, value) == [tag |-> tag, loc |-> l, value |-> value]
        Leaves(l) ==
            {Variable(Identifier(l, <<"x">>)),
             [tag |-> "This", loc |-> l],
             Lit("BoolLiteral", l, TRUE),
             [tag |-> "NumberLiteral", loc |-> l, value |-> <<"1">>,
              exp |-> <<>>],
             [tag |-> "RationalNumberLiteral", loc |-> l, value |-> <<"1">>,
              fraction |-> <<"5">>, exp |-> <<>>],
             Lit("HexNumberLiteral", l, <<"0", "x", "1">>),
             Lit("AddressLiteral", l, <<"0", "x", "1">>),
             ExprType(l, [tag |-> "Bool"]),
             [tag |-> "List", loc |-> l, params |-> <<>>],
             [tag |-> "ArrayLiteral", loc |-> l, elems |-> <<VarX>>]}
        StringLits ==
            {[tag |-> "StringLiteral", loc |-> l, unicode |-> FALSE,
              string |-> <<"s">>] : l \in NodeLocs}
        HexLits ==
            {[tag |-> "HexLiteral", loc |-> l, hex |-> <<"0", "1">>] :
                l \in NodeLocs}
        Composites(l) ==
            {[tag |-> t, loc |-> l, expr |-> x] :
                t \in UnaryTags \ {"Parenthesis"}, x \in Operands}
            \cup {[tag |-> t, loc |-> l, left |-> x, right |-> VarX] :
                    t \in BinaryTags, x \in Operands}
            \cup {[tag |-> "ArraySubscript", loc |-> l, expr |-> VarX,
                   index |-> i] : i \in {None, Some(VarX)}}
            \cup {[tag |-> "ArraySlice", loc |-> l, expr |-> VarX,
                   from |-> None, to |-> Some(VarX)],
                  [tag |-> "MemberAccess", loc |-> l, expr |-> VarX,
                   member |-> IdentX],
                  FunctionCall(l, VarX, <<>>), FunctionCall(l, VarX, <<VarX>>),
                  [tag |-> "FunctionCallBlock", loc |-> l, fn |-> VarX,
                   block |-> Block(l, FALSE, <<>>)],
                  [tag |-> "NamedFunctionCall", loc |-> l, fn |-> VarX,
                   args |-> <<>>],
                  [tag |-> "Ternary", loc |-> l, cond |-> VarX,
                   left |-> VarX, right |-> VarX],
                  [tag |-> "Unit", loc |-> l, expr |-> VarX,
                   unit |-> [tag |-> "Ether", loc |-> l]]}
        Flat ==
            UNION {Leaves(l) \cup Composites(l) : l \in NodeLocs}
            \cup {[tag |-> "StringLiteral", lits |-> v] :
                    v \in SeqsUpTo(StringLits, MaxLits)}
            \cup {[tag |-> "HexLiteral", lits |-> v] :
                    v \in SeqsUpTo(HexLits, MaxLits)}
        RECURSIVE Wrapped(_)
        Wrapped(n) ==
            IF n = 0 THEN Flat
            ELSE LET inner == Wrapped(n - 1)
                 IN  inner \cup {Parenthesis(l, e) : l \in NodeLocs, e \in inner}
    IN  Wrapped(MaxParens)

\* A Statement of every variant.
StmtInputs ==
    LET VarX == Variable(Identifier(LocCodegen, <<"x">>))
        At(tag, l) == [tag |-> tag, loc |-> l]
        Variants(l) ==
            {Block(l, u, <<>>) : u \in BOOLEAN}
            \cup {[tag |-> "Return", loc |-> l, expr |-> x] :
                    x \in {None, Some(VarX)}}
            \cup {[tag |-> "Assembly", loc |-> l, dialect |-> None,
                   flags |-> None,
                   block |-> [tag |-> "YulBlock", loc |-> l,
                              statements |-> <<>>]],
                  [tag |-> "Args", loc |-> l, args |-> <<>>],
                  [tag |-> "If", loc |-> l, cond |-> VarX,
                   then |-> At("Continue", l), else |-> None],
                  [tag |-> "While", loc |-> l, cond |-> VarX,
                   body |-> At("Break", l)],
                  [tag |-> "Expression", loc |-> l, expr |-> VarX],
                  [tag |-> "VariableDefinition", loc |-> l,
                   decl |-> [loc |-> l, ty |-> ExprType(l, [tag |-> "Bool"]),
                             storage |-> None,
                             name |-> Identifier(l, <<"x">>)],
                   init |-> None],
                  [tag |-> "For", loc |-> l, init |-> None, cond |-> None,
                   next |-> None, body |-> None],
                  [tag |-> "DoWhile", loc |-> l, body |-> At("Continue", l),
                   cond |-> VarX],
                  At("Continue", l), At("Break", l),
                  [tag |-> "Revert", loc |-> l, path |-> None, args |-> <<>>],
                  [tag |-> "RevertNamedArgs", loc |-> l, path |-> None,
                   args |-> <<>>],
                  Emit(l, FunctionCall(l, VarX, <<>>)),
                  [tag |-> "Try", loc |-> l, expr |-> VarX, returns |-> None,
                   clauses |-> <<>>]}
    IN  UNION {Variants(l) : l \in NodeLocs}

\* A YulStatement of every variant.
YulStmtInputs ==
    LET IdentX == Identifier(LocCodegen, <<"x">>)
        YulVariable == [tag |-> "Variable", id |-> IdentX]
        YulBlock(l) == [tag |-> "YulBlock", loc |-> l, statements |-> <<>>]
        At(tag, l) == [tag |-> tag, loc |-> l]
        Inner(tag, struct) == [tag |-> tag, inner |-> struct]
        Variants(l) ==
            {[tag |-> "Assign", loc |-> l, names |-> <<YulVariable>>,
              value |-> YulVariable],
             [tag |-> "VariableDeclaration", loc |-> l, names |-> <<>>,
              value |-> None],
             [tag |-> "If", loc |-> l, cond |-> YulVariable,
              block |-> YulBlock(l)],
             Inner("For",
                   [tag |-> "YulFor", loc |-> l, init_block |-> YulBlock(l),
                    condition |-> YulVariable, post_block |-> YulBlock(l),
                    execution_block |-> YulBlock(l)]),
             Inner("Switch",
                   [tag |-> "YulSwitch", loc |-> l, condition |-> YulVariable,
                    cases |-> <<>>, default |-> None]),
             At("Leave", l), At("Break", l), At("Continue", l),
             Inner("Block", YulBlock(l)),
             Inner("FunctionDefinition",
                   [tag |-> "YulFunctionDefinition", loc |-> l, id |-> IdentX,
                    params |-> <<>>, returns |-> <<>>, body |-> YulBlock(l)]),
             Inner("FunctionCall",
                   [tag |-> "YulFunctionCall", loc |-> l, id |-> IdentX,
                    arguments |-> <<>>])}
    IN  UNION {Variants(l) : l \in NodeLocs}

\* The receivers of loc(), each under the name of its type.
NodeInputs ==
    {[kind |-> "Expression", val |-> e] : e \in ExprInputs}
    \cup {[kind |-> "Statement", val |-> s] : s \in StmtInputs}
    \cup {[kind |-> "YulStatement", val |-> y] : y \in YulStmtInputs}

\* loc() of the node, by the impl of its type.
NodeLoc(n) ==
    CASE n.kind = "Expression" -> ExprLoc(n.val)
      [] n.kind = "Statement" -> StmtLoc(n.val)
      [] n.kind = "YulStatement" -> YulStmtLoc(n.val)

(***************************************************************************)
(* IdentifierPath                                                          *)
(***************************************************************************)
\* impl Display for Identifier: write_str(&self.name)
IdentifierFmt(out, ident) == out \o ident.name

\* An IdentifierPath fmt whose loop runs over identifiers[..] after the
\* first identifier was written.
IdentifierPathFmtFromFirst(p) ==
    LET ids == p.identifiers
        RECURSIVE Rest(_, _)
        Rest(out, i) ==
            IF i > Len(ids) THEN out
            ELSE Rest(IdentifierFmt(out \o <<".">>, ids[i]), i + 1)
    IN  IF Len(ids) = 0 THEN <<>> ELSE Rest(IdentifierFmt(<<>>, ids[1]), 1)

\* impl Display for IdentifierPath: the first identifier, then "." and an
\* identifier for each of identifiers[1..]; nothing for an empty path.
IdentifierPathFmt(p) ==
    LET ids == p.identifiers
        RECURSIVE Rest(_, _)
        Rest(out, i) ==
            IF i > Len(ids) THEN out
            ELSE Rest(IdentifierFmt(out \o <<".">>, ids[i]), i + 1)
    IN  IF Len(ids) = 0 THEN <<>> ELSE Rest(IdentifierFmt(<<>>, ids[1]), 2)

\* Paths of 0..MaxIdents identifiers, the names of one and two characters,
\* none of them a dot.
PathInputs ==
    LET Names == {<<"a">>, <<"b", "c">>, <<"_", "1">>}
        Idents == {Identifier(l, n) : l \in NodeLocs, n \in Names}
    IN  {[tag |-> "IdentifierPath", loc |-> l, identifiers |-> ids] :
            l \in NodeLocs, ids \in SeqsUpTo(Idents, MaxIdents)}

(***************************************************************************)
(* Parameters and definitions                                              *)
(***************************************************************************)
Parameter(loc, ty, storage, name) ==
    [tag |-> "Parameter", loc |-> loc, ty |-> ty, storage |-> storage,
     name |-> name]

EventParameter(ty, loc, indexed, name) ==
    [tag |-> "EventParameter", ty |-> ty, loc |-> loc, indexed |-> indexed,
     name |-> name]

EventDefinition(loc, name, fields, anonymous) ==
    [tag |-> "EventDefinition", loc |-> loc, name |-> name, fields |-> fields,
     anonymous |-> anonymous]

\* attributes: Vec<FunctionAttribute>; FunctionAttribute::Visibility(v) and
\* ::Mutability(m) hold v or m in inner, Visibility::Public(Option<Loc>) and
\* its siblings hold the option in loc.
FunctionDefinition(loc, ty, name, name_loc, params, attributes, rnr, returns, body) ==
    [tag |-> "FunctionDefinition", loc |-> loc, ty |-> ty, name |-> name,
     name_loc |-> name_loc, params |-> params, attributes |-> attributes,
     return_not_returns |-> rnr, returns |-> returns, body |-> body]

(***************************************************************************)
(* Locations under a rule.  A rule m gives m.loc[l] for a Loc and          *)
(* m.opt[o] for an Option<Loc>; the operators below rebuild a node with    *)
(* the rule applied to every location it holds, at any depth.  They carry  *)
(* the structural recursion of derive(PartialEq), which compares two nodes *)
(* variant by variant and field by field.                                  *)
(***************************************************************************)
OptLoc == {None} \cup {Some(l) : l \in Loc}

RECURSIVE RelocExpr(_, _), RelocType(_, _), RelocStmt(_, _),
          RelocParameterList(_, _), RelocVal(_, _)

\* A value under the name of its Rust type.
Val(kind, val) == [kind |-> kind, val |-> val]

\* Vec<T> and Option<T>, kind naming T
RelocSeq(m, kind, v) == [i \in 1..Len(v) |-> RelocVal(m, Val(kind, v[i]))]

\* A node that holds a loc and plain data: Identifier, StringLiteral,
\* HexLiteral, Unit, Mutability
RelocLeaf(m, n) == [n EXCEPT !.loc = m.loc[@]]

RelocType(m, ty) ==
    IF ty.tag = "Mapping"
    THEN [ty EXCEPT !.loc = m.loc[@],
                    !.from = RelocExpr(m, @),
                    !.to = RelocExpr(m, @)]
    ELSE ty

RelocParameter(m, p) ==
    [p EXCEPT !.loc = m.loc[@],
              !.ty = RelocExpr(m, @),
              !.storage = RelocSeq(m, "Leaf", @),
              !.name = RelocSeq(m, "Leaf", @)]

\* Vec<(Loc, Option<Parameter>)>
RelocParameterList(m, ps) ==
    [i \in 1..Len(ps) |->
        <<m.loc[ps[i][1]], RelocSeq(m, "Parameter", ps[i][2])>>]

RelocExpr(m, e) ==
    CASE e.tag \in UnaryTags ->
            [e EXCEPT !.loc = m.loc[@], !.expr = RelocExpr(m, @)]
      [] e.tag \in BinaryTags ->
            [e EXCEPT !.loc = m.loc[@], !.left = RelocExpr(m, @),
                      !.right = RelocExpr(m, @)]
      [] e.tag = "ArraySubscript" ->
            [e EXCEPT !.loc = m.loc[@], !.expr = RelocExpr(m, @),
                      !.index = RelocSeq(m, "Expression", @)]
      [] e.tag = "ArraySlice" ->
            [e EXCEPT !.loc = m.loc[@], !.expr = RelocExpr(m, @),
                      !.from = RelocSeq(m, "Expression", @),
                      !.to = RelocSeq(m, "Expression", @)]
      [] e.tag = "MemberAccess" ->
            [e EXCEPT !.loc = m.loc[@], !.expr = RelocExpr(m, @),
                      !.member = RelocLeaf(m, @)]
      [] e.tag = "FunctionCall" ->
            [e EXCEPT !.loc = m.loc[@], !.fn = RelocExpr(m, @),
                      !.args = RelocSeq(m, "Expression", @)]
      [] e.tag = "FunctionCallBlock" ->
            [e EXCEPT !.loc = m.loc[@], !.fn = RelocExpr(m, @),
                      !.block = RelocStmt(m, @)]
      [] e.tag = "Ternary" ->
            [e EXCEPT !.loc = m.loc[@], !.cond = RelocExpr(m, @),
                      !.left = RelocExpr(m, @), !.right = RelocExpr(m, @)]
      [] e.tag \in {"StringLiteral", "HexLiteral"} ->
            [e EXCEPT !.lits = RelocSeq(m, "Leaf", @)]
      [] e.tag = "Type" ->
            [e EXCEPT !.loc = m.loc[@], !.ty = RelocType(m, @)]
      [] e.tag = "Variable" ->
            [e EXCEPT !.id = RelocLeaf(m, @)]
      [] e.tag = "List" ->
            [e EXCEPT !.loc = m.loc[@], !.params = RelocParameterList(m, @)]
      [] e.tag = "ArrayLiteral" ->
            [e EXCEPT !.loc = m.loc[@], !.elems = RelocSeq(m, "Expression", @)]
      [] e.tag = "Unit" ->
            [e EXCEPT !.loc = m.loc[@], !.expr = RelocExpr(m, @),
                      !.unit = RelocLeaf(m, @)]
      \* BoolLiteral, NumberLiteral, RationalNumberLiteral, HexNumberLiteral,
      \* AddressLiteral, This: a loc and plain data
      [] OTHER -> RelocLeaf(m, e)

\* The statements of the parse tree short of Assembly, Args, RevertNamedArgs
\* and Try, which no tree compared or built here holds.
RelocStmt(m, s) ==
    LET VariableDeclaration(d) ==
            [d EXCEPT !.loc = m.loc[@],
                      !.ty = RelocExpr(m, @),
                      !.storage = RelocSeq(m, "Leaf", @),
                      !.name = RelocLeaf(m, @)]
    IN
    CASE s.tag = "Block" ->
            [s EXCEPT !.loc = m.loc[@],
                      !.statements = RelocSeq(m, "Statement", @)]
      [] s.tag = "If" ->
            [s EXCEPT !.loc = m.loc[@], !.cond = RelocExpr(m, @),
                      !.then = RelocStmt(m, @),
                      !.else = RelocSeq(m, "Statement", @)]
      [] s.tag = "While" ->
            [s EXCEPT !.loc = m.loc[@], !.cond = RelocExpr(m, @),
                      !.body = RelocStmt(m, @)]
      [] s.tag = "DoWhile" ->
            [s EXCEPT !.loc = m.loc[@], !.body = RelocStmt(m, @),
                      !.cond = RelocExpr(m, @)]
      [] s.tag = "For" ->
            [s EXCEPT !.loc = m.loc[@],
                      !.init = RelocSeq(m, "Statement", @),
                      !.cond = RelocSeq(m, "Expression", @),
                      !.next = RelocSeq(m, "Statement", @),
                      !.body = RelocSeq(m, "Statement", @)]
      [] s.tag \in {"Expression", "Emit"} ->
            [s EXCEPT !.loc = m.loc[@], !.expr = RelocExpr(m, @)]
      [] s.tag = "VariableDefinition" ->
            [s EXCEPT !.loc = m.loc[@],
                      !.decl = VariableDeclaration(@),
                      !.init = RelocSeq(m, "Expression", @)]
      [] s.tag = "Return" ->
            [s EXCEPT !.loc = m.loc[@], !.expr = RelocSeq(m, "Expression", @)]
      [] s.tag = "Revert" ->
            [s EXCEPT !.loc = m.loc[@],
                      !.path = RelocSeq(m, "IdentifierPath", @),
                      !.args = RelocSeq(m, "Expression", @)]
      \* Continue, Break: a loc alone
      [] s.tag \in {"Continue", "Break"} -> RelocLeaf(m, s)

\* FunctionAttribute: Mutability(Mutability), Visibility(Visibility) with
\* its Option<Loc>, Virtual(Loc)
RelocFunctionAttribute(m, a) ==
    CASE a.tag = "Mutability" -> [a EXCEPT !.inner = RelocLeaf(m, @)]
      [] a.tag = "Visibility" -> [a EXCEPT !.inner.loc = m.opt[@]]
      [] a.tag = "Virtual" -> RelocLeaf(m, a)

RelocFunctionDefinition(m, fd) ==
    [fd EXCEPT !.loc = m.loc[@],
               !.name = RelocSeq(m, "Leaf", @),
               !.name_loc = m.loc[@],
               !.params = RelocParameterList(m, @),
               !.attributes = RelocSeq(m, "FunctionAttribute", @),
               !.return_not_returns = m.opt[@],
               !.returns = RelocParameterList(m, @),
               !.body = RelocSeq(m, "Statement", @)]

RelocEventParameter(m, p) ==
    [p EXCEPT !.ty = RelocExpr(m, @),
              !.loc = m.loc[@],
              !.name = RelocSeq(m, "Leaf", @)]

RelocEventDefinition(m, ed) ==
    [ed EXCEPT !.loc = m.loc[@],
               !.name = RelocLeaf(m, @),
               !.fields = RelocSeq(m, "EventParameter", @)]

\* The value with the rule applied to every location it holds, by its type.
RelocVal(m, v) ==
    CASE v.kind \in {"String", "Vec<(String, Type)>"} -> v.val
      \* Identifier, StringLiteral, HexLiteral
      [] v.kind \in {"Identifier", "Leaf"} -> RelocLeaf(m, v.val)
      [] v.kind = "IdentifierPath" ->
            [v.val EXCEPT !.loc = m.loc[@],
                          !.identifiers = RelocSeq(m, "Leaf", @)]
      [] v.kind = "FunctionAttribute" -> RelocFunctionAttribute(m, v.val)
      [] v.kind = "Type" -> RelocType(m, v.val)
      \* Option<Type> and Vec<Type>
      [] v.kind \in {"Option<Type>", "Vec<Type>"} -> RelocSeq(m, "Type", v.val)
      [] v.kind = "Expression" -> RelocExpr(m, v.val)
      [] v.kind = "Vec<Expression>" -> RelocSeq(m, "Expression", v.val)
      [] v.kind = "Statement" -> RelocStmt(m, v.val)
      [] v.kind = "Vec<Statement>" -> RelocSeq(m, "Statement", v.val)
      [] v.kind = "Parameter" -> RelocParameter(m, v.val)
      [] v.kind = "ParameterList" -> RelocParameterList(m, v.val)
      [] v.kind = "EventParameter" -> RelocEventParameter(m, v.val)
      [] v.kind = "Vec<EventParameter>" -> RelocSeq(m, "EventParameter", v.val)
      [] v.kind = "EventDefinition" -> RelocEventDefinition(m, v.val)
      [] v.kind = "FunctionDefinition" -> RelocFunctionDefinition(m, v.val)
      [] v.kind = "SourceUnit" ->
            [v.val EXCEPT !.parts = RelocSeq(m, "Part", @)]
      \* SourceUnitPart and ContractPart: a boxed definition or a
      \* StraySemicolon(Loc)
      [] v.kind = "Part" ->
            IF v.val.tag = "StraySemicolon" THEN RelocLeaf(m, v.val)
            ELSE [v.val EXCEPT !.inner = RelocVal(m, Val(v.val.tag, @))]
      \* ty: ContractTy holds a loc alone; base: Vec<Base>
      [] v.kind = "ContractDefinition" ->
            [v.val EXCEPT !.loc = m.loc[@],
                          !.ty = RelocLeaf(m, @),
                          !.name = RelocLeaf(m, @),
                          !.base = RelocSeq(m, "Base", @),
                          !.parts = RelocSeq(m, "Part", @)]
      [] v.kind = "Base" ->
            [v.val EXCEPT !.loc = m.loc[@],
                          !.name = RelocVal(m, Val("IdentifierPath", @)),
                          !.args = [i \in 1..Len(@) |->
                                        RelocSeq(m, "Expression", @[i])]]

(***************************************************************************)
(* codegen.rs                                                              *)
(***************************************************************************)
id(name) == Identifier(LocCodegen, name)

var_expr(name) == Variable(id(name))

type_expr(ty) == ExprType(LocCodegen, ty)

\* A call_expr that drops the arguments.
call_expr_without_args(name, args) ==
    FunctionCall(LocCodegen, var_expr(name), <<>>)

call_expr(name, args) == FunctionCall(LocCodegen, var_expr(name), args)

emit_stmt(name, args) == Emit(LocCodegen, call_expr(name, args))

\* A block_stmt that leaves the block checked.
block_stmt_checked(stmts) == Block(LocCodegen, FALSE, stmts)

block_stmt(stmts) == Block(LocCodegen, TRUE, stmts)

\* An event_def that makes the event anonymous.
event_def_anonymous(name, params) ==
    EventDefinition(LocCodegen, id(name), params, TRUE)

event_def(name, params) == EventDefinition(LocCodegen, id(name), params, FALSE)

annon_parameter(ty) == Parameter(LocCodegen, type_expr(ty), None, None)

event_parameter(name, ty) ==
    EventParameter(type_expr(ty), LocCodegen, FALSE, Some(id(name)))

parameter(name, ty) == Parameter(LocCodegen, type_expr(ty), None, Some(id(name)))

annon_parameter_list(params) ==
    [i \in 1..Len(params) |-> <<LocCodegen, Some(annon_parameter(params[i]))>>]

\* params: Vec<(String, Type)>
parameter_list(params) ==
    [i \in 1..Len(params) |->
        <<LocCodegen, Some(parameter(params[i][1], params[i][2]))>>]

\* A function_def that returns nothing whatever ret is.
function_def_without_returns(name, params, ret, body) ==
    FunctionDefinition(
        LocCodegen, "Function", Some(id(name)), LocCodegen, params,
        <<[tag |-> "Visibility",
          inner |-> [tag |-> "Public", loc |-> None]]>>,
        None, <<>>, Some(body))

\* ret: Option<Type>; ret.map_or_else(Vec::new, |r| vec![r]) is ret as a Vec
function_def(name, params, ret, body) ==
    FunctionDefinition(
        LocCodegen, "Function", Some(id(name)), LocCodegen, params,
        <<[tag |-> "Visibility",
          inner |-> [tag |-> "Public", loc |-> None]]>>,
        None, annon_parameter_list(ret), Some(body))

\* A param_to_event_param that takes the location of the parameter.
param_to_event_param_keeping_loc(param) ==
    EventParameter(param.ty, param.loc, FALSE, param.name)

\* A param_to_event_param that drops the name of the parameter.
param_to_event_param_unnamed(param) ==
    EventParameter(param.ty, LocCodegen, FALSE, None)

param_to_event_param(param) ==
    EventParameter(param.ty, LocCodegen, FALSE, param.name)

\* assert!(p.1.is_some()) on every element, then the conversion of each
params_to_event_params(params) ==
    IF \E i \in 1..Len(params) : params[i][2] = None
    THEN Panic
    ELSE Ok([i \in 1..Len(params) |-> param_to_event_param(params[i][2][1])])

\* assert!(param.name.is_some())
param_to_arg(param) ==
    IF param.name = None THEN Panic ELSE Ok(var_expr(param.name[1].name))

\* A params_to_args that collects the arguments from the last parameter to
\* the first.
params_to_args_reversed(params) ==
    IF \E i \in 1..Len(params) :
            \/ params[i][2] = None
            \/ ~param_to_arg(params[i][2][1]).ok
    THEN Panic
    ELSE Ok([i \in 1..Len(params) |->
                param_to_arg(params[Len(params) + 1 - i][2][1]).val])

params_to_args(params) ==
    IF \E i \in 1..Len(params) :
            \/ params[i][2] = None
            \/ ~param_to_arg(params[i][2][1]).ok
    THEN Panic
    ELSE Ok([i \in 1..Len(params) |-> param_to_arg(params[i][2][1]).val])
(***************************************************************************)
(* Inputs of the Codegen group: names, and trees as the builders make them *)
(* (Codegen locations) and as a parser makes them (File locations).        *)
(***************************************************************************)
CgInputs ==
    LET FileLoc == LocFile(0, 0, 1)
        Bool == [tag |-> "Bool"]
        Uint256 == [tag |-> "Uint", size |-> 256]
        Address == [tag |-> "Address"]
        IdentY == Identifier(FileLoc, <<"y">>)
        Continue == [tag |-> "Continue", loc |-> FileLoc]
        Parameters ==
            {parameter(<<"x">>, Bool),
             annon_parameter(Bool),
             Parameter(FileLoc, ExprType(FileLoc, Uint256), None, Some(IdentY)),
             Parameter(FileLoc, ExprType(FileLoc, Bool), None, None)}
    IN  [names |-> {<<"H", "i", "t">>, <<"x">>},
         types |->
            {Bool, Uint256,
             [tag |-> "Mapping", loc |-> FileLoc,
              from |-> ExprType(FileLoc, Address),
              to |-> ExprType(FileLoc, Bool)]},
         plainTypes |-> {Bool, Uint256},
         exprs |->
            {var_expr(<<"x">>), Variable(IdentY),
             [tag |-> "NumberLiteral", loc |-> FileLoc, value |-> <<"1">>,
              exp |-> <<>>]},
         stmts |->
            {Continue, [tag |-> "Return", loc |-> LocCodegen, expr |-> None],
             emit_stmt(<<"H", "i", "t">>, <<var_expr(<<"x">>)>>)},
         parameters |-> Parameters,
         \* (Loc, Option<Parameter>)
         slots |-> {<<p.loc, Some(p)>> : p \in Parameters}
                   \cup {<<FileLoc, None>>},
         eventParameters |->
            {event_parameter(<<"x">>, Bool),
             EventParameter(ExprType(FileLoc, Address), FileLoc, TRUE,
                            Some(IdentY)),
             EventParameter(ExprType(FileLoc, Bool), FileLoc, FALSE, None)},
         bodies |-> {block_stmt(<<>>), Block(FileLoc, FALSE, <<Continue>>)}]

\* The rule that stamps Codegen on every location there is.
StampCodegen ==
    [loc |-> [l \in Loc |-> LocCodegen],
     opt |-> [o \in OptLoc |-> IF o = None THEN None ELSE Some(LocCodegen)]]

(***************************************************************************)
(* The pretty-printer (impl Docable).  A document is held as what display  *)
(* renders it to: the text, or the panic of a to_doc inside it.  No        *)
(* document of pt.rs is grouped, so at any width RcDoc::space() prints a   *)
(* blank and RcDoc::line() and hardline() print a newline.                 *)
(***************************************************************************)
\* The string literals of the printer and the keywords of the grammar, as
\* characters.
Str ==
    [contract |-> <<"c", "o", "n", "t", "r", "a", "c", "t">>,
     interface |-> <<"i", "n", "t", "e", "r", "f", "a", "c", "e">>,
     library |-> <<"l", "i", "b", "r", "a", "r", "y">>,
     abstract |-> <<"a", "b", "s", "t", "r", "a", "c", "t">>,
     event |-> <<"e", "v", "e", "n", "t">>,
     anonymous |-> <<"a", "n", "o", "n", "y", "m", "o", "u", "s">>,
     indexed |-> <<"i", "n", "d", "e", "x", "e", "d">>,
     address |-> <<"a", "d", "d", "r", "e", "s", "s">>,
     payable |-> <<"p", "a", "y", "a", "b", "l", "e">>,
     bool |-> <<"b", "o", "o", "l">>,
     string |-> <<"s", "t", "r", "i", "n", "g">>,
     int |-> <<"i", "n", "t">>,
     uint |-> <<"u", "i", "n", "t">>,
     bytes |-> <<"b", "y", "t", "e", "s">>,
     mapping |-> <<"m", "a", "p", "p", "i", "n", "g">>,
     this |-> <<"t", "h", "i", "s">>,
     true |-> <<"t", "r", "u", "e">>,
     false |-> <<"f", "a", "l", "s", "e">>,
     new |-> <<"n", "e", "w">>,
     if |-> <<"i", "f">>,
     else |-> <<"e", "l", "s", "e">>,
     while |-> <<"w", "h", "i", "l", "e">>,
     continue |-> <<"c", "o", "n", "t", "i", "n", "u", "e">>,
     break |-> <<"b", "r", "e", "a", "k">>,
     return |-> <<"r", "e", "t", "u", "r", "n">>,
     revert |-> <<"r", "e", "v", "e", "r", "t">>,
     emit |-> <<"e", "m", "i", "t">>,
     returns |-> <<"r", "e", "t", "u", "r", "n", "s">>,
     function |-> <<"f", "u", "n", "c", "t", "i", "o", "n">>,
     constructor |-> <<"c", "o", "n", "s", "t", "r", "u", "c", "t", "o", "r">>,
     fallback |-> <<"f", "a", "l", "l", "b", "a", "c", "k">>,
     receive |-> <<"r", "e", "c", "e", "i", "v", "e">>,
     modifier |-> <<"m", "o", "d", "i", "f", "i", "e", "r">>,
     public |-> <<"p", "u", "b", "l", "i", "c">>,
     external |-> <<"e", "x", "t", "e", "r", "n", "a", "l">>,
     internal |-> <<"i", "n", "t", "e", "r", "n", "a", "l">>,
     private |-> <<"p", "r", "i", "v", "a", "t", "e">>,
     pure |-> <<"p", "u", "r", "e">>,
     view |-> <<"v", "i", "e", "w">>,
     virtual |-> <<"v", "i", "r", "t", "u", "a", "l">>,
     immutable |-> <<"i", "m", "m", "u", "t", "a", "b", "l", "e">>,
     override |-> <<"o", "v", "e", "r", "r", "i", "d", "e">>,
     memory |-> <<"m", "e", "m", "o", "r", "y">>,
     storage |-> <<"s", "t", "o", "r", "a", "g", "e">>,
     calldata |-> <<"c", "a", "l", "l", "d", "a", "t", "a">>]

\* The one element of a set.  Only({F(x) : x \in {e}}) is F(e) with e
\* computed once, however often F reads x.
Only(S) == CHOOSE x \in S : TRUE

\* A chain of appends in which a part that panics prints as nothing.
ConcatSkippingPanics(docs) ==
    LET RECURSIVE Cat(_, _)
        Cat(d, i) ==
            IF i > Len(d) THEN <<>>
            ELSE (IF d[i].ok THEN d[i].val ELSE <<>>) \o Cat(d, i + 1)
    IN  Only({Ok(Cat(d, 1)) : d \in {docs}})

\* a.append(b).append(c) ...: the texts of the parts in order
Concat(docs) ==
    LET RECURSIVE Cat(_, _)
        Cat(d, i) == IF i > Len(d) THEN <<>> ELSE d[i].val \o Cat(d, i + 1)
    IN  Only({IF \E i \in 1..Len(d) : ~d[i].ok THEN Panic ELSE Ok(Cat(d, 1)) :
                d \in {docs}})

\* An intersperse that takes the documents from the last to the first.
IntersperseReversed(docs, sep) ==
    Concat([i \in 1..(2 * Len(docs) - 1) |->
                IF i % 2 = 1 THEN docs[Len(docs) + 1 - ((i + 1) \div 2)]
                ELSE Ok(sep)])

\* RcDoc::intersperse(docs, sep)
Intersperse(docs, sep) ==
    Concat([i \in 1..(2 * Len(docs) - 1) |->
                IF i % 2 = 1 THEN docs[(i + 1) \div 2] ELSE Ok(sep)])

\* doc.nest(4): four blanks after every newline of the document
Nest(doc) ==
    LET \* the characters lo..hi of the text, indented
        RECURSIVE Indent(_, _, _)
        Indent(text, lo, hi) ==
            IF lo > hi THEN <<>>
            ELSE IF lo = hi
                 THEN (IF text[lo] = "\n" THEN <<"\n", " ", " ", " ", " ">>
                       ELSE <<text[lo]>>)
            ELSE Only({Indent(text, lo, mid) \o Indent(text, mid + 1, hi) :
                        mid \in {(lo + hi) \div 2}})
    IN  Only({IF d.ok THEN Ok(Indent(d.val, 1, Len(d.val))) ELSE Panic :
                d \in {doc}})

RECURSIVE ExprDoc(_), StmtDoc(_)

\* impl Docable for Type
TypeDoc(ty) ==
    LET Digit == <<"0", "1", "2", "3", "4", "5", "6", "7", "8", "9">>
        RECURSIVE Decimal(_)
        Decimal(n) ==
            IF n < 10 THEN <<Digit[n + 1]>>
            ELSE Decimal(n \div 10) \o <<Digit[(n % 10) + 1]>>
    IN  CASE ty.tag = "Address" -> Ok(Str.address)
          [] ty.tag = "AddressPayable" -> Ok(Str.address \o <<" ">> \o Str.payable)
          [] ty.tag = "Payable" -> Ok(Str.payable)
          [] ty.tag = "Bool" -> Ok(Str.bool)
          [] ty.tag = "String" -> Ok(Str.string)
          [] ty.tag = "Int" -> Ok(Str.int \o Decimal(ty.size))
          [] ty.tag = "Uint" -> Ok(Str.uint \o Decimal(ty.size))
          [] ty.tag = "Bytes" -> Ok(Str.bytes \o Decimal(ty.size))
          [] ty.tag = "DynamicBytes" -> Ok(Str.bytes)
          [] ty.tag = "Mapping" ->
                Concat(<<Ok(Str.mapping \o <<"(">>), ExprDoc(ty.from),
                         Ok(<<" ", "=", ">", " ">>), ExprDoc(ty.to),
                         Ok(<<")">>)>>)
          \* Rational, Function
          [] OTHER -> Panic

\* param_list_to_doc, with impl Docable for Parameter: a slot
\* (Loc, Option<Parameter>) prints its parameter, or nothing
ParamListDoc(ps) ==
    LET ParameterDoc(p) ==
            Concat(<<ExprDoc(p.ty),
                     Ok(IF p.storage = None THEN <<>> ELSE <<" ">>),
                     Ok(IF p.storage = None THEN <<>>
                        ELSE CASE p.storage[1].tag = "Memory" -> Str.memory
                               [] p.storage[1].tag = "Storage" -> Str.storage
                               [] p.storage[1].tag = "Calldata" -> Str.calldata),
                     Ok(IF p.name = None THEN <<>> ELSE <<" ">>),
                     Ok(IF p.name = None THEN <<>>
                        ELSE IdentifierFmt(<<>>, p.name[1]))>>)
    IN  Concat(<<Ok(<<"(">>),
                 Intersperse([i \in 1..Len(ps) |->
                                IF ps[i][2] = None THEN Ok(<<>>)
                                ELSE ParameterDoc(ps[i][2][1])],
                             <<",", " ">>),
                 Ok(<<")">>)>>)

\* impl Docable for Expression, with Expression::bin_op_doc and impl
\* Docable for StringLiteral
ExprDoc(e) ==
    LET StringLiteralDoc(lit) ==
            IF lit.unicode THEN Panic
            ELSE Ok(<<"\"">> \o lit.string \o <<"\"">>)
        BinOp ==
            [Assign |-> <<"=">>, AssignAdd |-> <<"+", "=">>, AssignSubtract |-> <<"-", "=">>,
             AssignMultiply |-> <<"*", "=">>, AssignDivide |-> <<"/", "=">>, AssignModulo |-> <<"%", "=">>,
             Multiply |-> <<"*">>, Divide |-> <<"/">>, Modulo |-> <<"%">>,
             Add |-> <<"+">>, Subtract |-> <<"-">>, ShiftLeft |-> <<"<", "<">>,
             ShiftRight |-> <<">", ">">>, Less |-> <<"<">>, More |-> <<">">>,
             LessEqual |-> <<"<", "=">>, MoreEqual |-> <<">", "=">>, Equal |-> <<"=", "=">>,
             NotEqual |-> <<"!", "=">>, And |-> <<"&", "&">>, Or |-> <<"|", "|">>]
        Exprs(v) == [i \in 1..Len(v) |-> ExprDoc(v[i])]
        ParenList(v) ==
            Concat(<<Ok(<<"(">>), Intersperse(Exprs(v), <<",", " ">>), Ok(<<")">>)>>)
    IN  CASE e.tag = "PostIncrement" -> Concat(<<ExprDoc(e.expr), Ok(<<"+", "+">>)>>)
          [] e.tag = "PostDecrement" -> Concat(<<ExprDoc(e.expr), Ok(<<"-", "-">>)>>)
          [] e.tag = "New" -> Concat(<<Ok(Str.new \o <<" ">>), ExprDoc(e.expr)>>)
          [] e.tag = "ArraySubscript" ->
                Concat(<<ExprDoc(e.expr), Ok(<<"[">>),
                         IF e.index = None THEN Ok(<<>>) ELSE ExprDoc(e.index[1]),
                         Ok(<<"]">>)>>)
          [] e.tag = "ArraySlice" -> Panic
          [] e.tag = "Parenthesis" ->
                Concat(<<Ok(<<"(">>), ExprDoc(e.expr), Ok(<<")">>)>>)
          [] e.tag = "FunctionCall" -> Concat(<<ExprDoc(e.fn), ParenList(e.args)>>)
          [] e.tag = "MemberAccess" ->
                Concat(<<ExprDoc(e.expr), Ok(<<".">>),
                         Ok(IdentifierFmt(<<>>, e.member))>>)
          [] e.tag = "Not" -> Concat(<<Ok(<<"!">>), ExprDoc(e.expr)>>)
          [] e.tag = "PreIncrement" -> Concat(<<Ok(<<"+", "+">>), ExprDoc(e.expr)>>)
          [] e.tag = "PreDecrement" -> Concat(<<Ok(<<"-", "-">>), ExprDoc(e.expr)>>)
          [] e.tag \in DOMAIN BinOp ->
                Concat(<<ExprDoc(e.left), Ok(<<" ">>), Ok(BinOp[e.tag]),
                         Ok(<<" ">>), ExprDoc(e.right)>>)
          [] e.tag = "NumberLiteral" -> Ok(e.value)
          [] e.tag = "ArrayLiteral" ->
                Concat(<<Ok(<<"[">>), Intersperse(Exprs(e.elems), <<",", " ">>),
                         Ok(<<"]">>)>>)
          [] e.tag = "Type" -> TypeDoc(e.ty)
          [] e.tag = "Variable" -> Ok(IdentifierFmt(<<>>, e.id))
          [] e.tag = "This" -> Ok(Str.this)
          [] e.tag = "List" -> ParamListDoc(e.params)
          [] e.tag = "StringLiteral" ->
                Intersperse([i \in 1..Len(e.lits) |-> StringLiteralDoc(e.lits[i])],
                        <<",", " ">>)
          [] e.tag = "BoolLiteral" -> Ok(IF e.value THEN Str.true ELSE Str.false)
          [] e.tag = "FunctionCallBlock" ->
                Concat(<<ExprDoc(e.fn), Ok(<<"{">>), StmtDoc(e.block),
                         Ok(<<"}">>)>>)
          \* NamedFunctionCall, Complement, Delete, UnaryPlus, UnaryMinus,
          \* Power, BitwiseAnd, BitwiseXor, BitwiseOr, Ternary, AssignOr,
          \* AssignAnd, AssignXor, AssignShiftLeft, AssignShiftRight,
          \* RationalNumberLiteral, HexNumberLiteral, HexLiteral,
          \* AddressLiteral, Unit
          [] OTHER -> Panic

\* impl Docable for Statement, with VariableDeclaration and NamedArgument
StmtDoc(s) ==
    LET DeclDoc(d) ==
            Concat(<<ExprDoc(d.ty), Ok(<<" ">>),
                     Ok(IF d.storage = None THEN <<>>
                        ELSE (CASE d.storage[1].tag = "Memory" -> Str.memory
                                [] d.storage[1].tag = "Storage" -> Str.storage
                                [] d.storage[1].tag = "Calldata" -> Str.calldata)
                             \o <<" ">>),
                     Ok(IdentifierFmt(<<>>, d.name))>>)
        NamedArgumentDoc(a) ==
            Concat(<<Ok(IdentifierFmt(<<>>, a.name)), Ok(<<":", " ">>),
                     ExprDoc(a.expr)>>)
    IN  CASE s.tag = "Block" ->
                Concat(<<Ok(<<"{">>),
                         Intersperse([i \in 1..Len(s.statements) |->
                                        Nest(Concat(<<Ok(<<"\n">>),
                                                      StmtDoc(s.statements[i])>>))],
                                     <<>>),
                         Ok(<<"\n">>), Ok(<<"}">>)>>)
          [] s.tag = "Assembly" -> Panic
          [] s.tag = "Args" ->
                Intersperse([i \in 1..Len(s.args) |-> NamedArgumentDoc(s.args[i])],
                        <<" ">>)
          [] s.tag = "If" ->
                Concat(<<Ok(Str.if \o <<" ", "(">>), ExprDoc(s.cond), Ok(<<")">>),
                         Ok(<<" ">>), StmtDoc(s.then),
                         IF s.else = None THEN Ok(<<>>)
                         ELSE Concat(<<Ok(<<" ">> \o Str.else \o <<" ">>),
                                       StmtDoc(s.else[1])>>)>>)
          [] s.tag = "While" ->
                Concat(<<Ok(Str.while \o <<" ", "(">>), ExprDoc(s.cond),
                         Ok(<<")">>), Ok(<<" ">>), StmtDoc(s.body)>>)
          [] s.tag = "Expression" -> Concat(<<ExprDoc(s.expr), Ok(<<";">>)>>)
          [] s.tag = "VariableDefinition" ->
                IF s.init = None THEN Concat(<<DeclDoc(s.decl), Ok(<<";">>)>>)
                ELSE Concat(<<DeclDoc(s.decl), Ok(<<" ", "=", " ">>),
                              ExprDoc(s.init[1]), Ok(<<";">>)>>)
          [] s.tag = "Continue" -> Ok(Str.continue \o <<";">>)
          [] s.tag = "Break" -> Ok(Str.break \o <<";">>)
          [] s.tag = "Return" ->
                IF s.expr = None THEN Ok(Str.return \o <<";">>)
                ELSE Concat(<<Ok(Str.return \o <<" ">>), ExprDoc(s.expr[1]),
                              Ok(<<";">>)>>)
          [] s.tag = "Revert" ->
                Concat(<<Ok(Str.revert \o <<" ">>),
                         Ok(IF s.path = None THEN <<>>
                            ELSE IdentifierPathFmt(s.path[1])),
                         Ok(<<"(">>),
                         Intersperse([i \in 1..Len(s.args) |-> ExprDoc(s.args[i])],
                                 <<",", " ">>),
                         Ok(<<")">>), Ok(<<";">>)>>)
          [] s.tag = "RevertNamedArgs" -> Panic
          [] s.tag = "Emit" ->
                Concat(<<Ok(Str.emit \o <<" ">>), ExprDoc(s.expr), Ok(<<";">>)>>)
          [] s.tag = "Try" -> Panic
          \* For, DoWhile
          [] OTHER -> Panic

\* impl Docable for FunctionAttribute, with the Display of Mutability and
\* of Visibility; the attributes printed here are no Override and no
\* BaseOrModifier.
FunctionAttributeDoc(a) ==
    CASE a.tag = "Virtual" -> Ok(Str.virtual)
      [] a.tag = "Immutable" -> Ok(Str.immutable)
      [] a.tag = "Mutability" ->
            Ok(CASE a.inner.tag = "Pure" -> Str.pure
                 [] a.inner.tag \in {"Constant", "View"} -> Str.view
                 [] a.inner.tag = "Payable" -> Str.payable)
      [] a.tag = "Visibility" ->
            Ok(CASE a.inner.tag = "Public" -> Str.public
                 [] a.inner.tag = "External" -> Str.external
                 [] a.inner.tag = "Internal" -> Str.internal
                 [] a.inner.tag = "Private" -> Str.private)

\* A FunctionDefinition printer without the assertion on the name.
FunctionDefinitionDoc_unasserted(fd) ==
    LET TyDoc ==
            CASE fd.ty = "Constructor" -> Str.constructor
              [] fd.ty = "Function" -> Str.function
              [] fd.ty = "Fallback" -> Str.fallback
              [] fd.ty = "Receive" -> Str.receive
              [] fd.ty = "Modifier" -> Str.modifier
        Printed ==
            Concat(<<Ok(TyDoc),
                     Ok(<<" ">>),
                     Ok(IF fd.name = None THEN <<>>
                        ELSE IdentifierFmt(<<>>, fd.name[1])),
                     ParamListDoc(fd.params),
                     Ok(<<" ">>),
                     Intersperse([i \in 1..Len(fd.attributes) |->
                                    FunctionAttributeDoc(fd.attributes[i])],
                                 <<" ">>),
                     Ok(<<" ">>),
                     IF fd.returns = <<>> THEN Ok(<<>>)
                     ELSE Concat(<<Ok(Str.returns \o <<" ">>),
                                   ParamListDoc(fd.returns)>>),
                     IF fd.body = None THEN Panic ELSE StmtDoc(fd.body[1])>>)
    IN  Printed

\* impl Docable for FunctionDefinition, with the Display of FunctionTy.
\* The assert! on the name panics before
\* anything is printed, body.unwrap() when the body is absent.
FunctionDefinitionDoc(fd) ==
    LET TyDoc ==
            CASE fd.ty = "Constructor" -> Str.constructor
              [] fd.ty = "Function" -> Str.function
              [] fd.ty = "Fallback" -> Str.fallback
              [] fd.ty = "Receive" -> Str.receive
              [] fd.ty = "Modifier" -> Str.modifier
        Printed ==
            Concat(<<Ok(TyDoc),
                     Ok(<<" ">>),
                     Ok(IF fd.name = None THEN <<>>
                        ELSE IdentifierFmt(<<>>, fd.name[1])),
                     ParamListDoc(fd.params),
                     Ok(<<" ">>),
                     Intersperse([i \in 1..Len(fd.attributes) |->
                                    FunctionAttributeDoc(fd.attributes[i])],
                                 <<" ">>),
                     Ok(<<" ">>),
                     IF fd.returns = <<>> THEN Ok(<<>>)
                     ELSE Concat(<<Ok(Str.returns \o <<" ">>),
                                   ParamListDoc(fd.returns)>>),
                     IF fd.body = None THEN Panic ELSE StmtDoc(fd.body[1])>>)
    IN  IF ~(fd.name # None \/ fd.ty = "Constructor") THEN Panic
        ELSE Printed

\* impl Docable for EventParameter
EventParameterDoc(p) ==
    Concat(<<ExprDoc(p.ty), Ok(<<" ">>),
             Ok(IF p.indexed THEN Str.indexed \o <<" ">> ELSE <<>>),
             Ok(IF p.name = None THEN <<>> ELSE IdentifierFmt(<<>>, p.name[1]))>>)

\* impl Docable for EventDefinition
EventDefinitionDoc(ed) ==
    Concat(<<Ok(Str.event), Ok(<<" ">>), Ok(IdentifierFmt(<<>>, ed.name)),
             Ok(<<" ">>), Ok(<<"(">>),
             Intersperse([i \in 1..Len(ed.fields) |-> EventParameterDoc(ed.fields[i])],
                         <<",", " ">>),
             Ok(<<")">>)>>)

\* impl Docable for ContractPart, with impl Docable for TypeDefinition:
\* the arms of EventDefinition, FunctionDefinition, TypeDefinition and
\* StraySemicolon; the contracts printed here hold no other part.
ContractPartDoc(part) ==
    CASE part.tag = "EventDefinition" ->
            Concat(<<EventDefinitionDoc(part.inner), Ok(<<";">>)>>)
      [] part.tag = "FunctionDefinition" -> FunctionDefinitionDoc(part.inner)
      [] part.tag = "TypeDefinition" ->
            Concat(<<Ok(<<"t", "y", "p", "e", " ">>),
                     Ok(IdentifierFmt(<<>>, part.inner.name)),
                     Ok(<<" ", "i", "s", " ">>),
                     ExprDoc(part.inner.ty), Ok(<<";">>)>>)
      [] part.tag = "StraySemicolon" -> Ok(<<";">>)

\* impl Docable for ContractDefinition, with impl Docable for Base
ContractDefinitionDoc(cd) ==
    LET BaseDoc(b) ==
            Concat(<<Ok(IdentifierPathFmt(b.name)),
                     IF b.args = None THEN Ok(<<>>)
                     ELSE Concat(<<Ok(<<"(">>),
                                   Intersperse([i \in 1..Len(b.args[1]) |->
                                                    ExprDoc(b.args[1][i])],
                                               <<",", " ">>),
                                   Ok(<<")">>)>>)>>)
        has_base == Len(cd.base) # 0
    IN  Concat(<<Ok(Str.contract), Ok(<<" ">>),
                 Ok(IdentifierFmt(<<>>, cd.name)), Ok(<<" ">>),
                 Ok(IF has_base THEN <<" ", "i", "s", " ">> ELSE <<>>),
                 Intersperse([i \in 1..Len(cd.base) |-> BaseDoc(cd.base[i])],
                             <<",", " ">>),
                 Ok(IF has_base THEN <<" ">> ELSE <<>>),
                 Ok(<<"{">>),
                 Intersperse([i \in 1..Len(cd.parts) |->
                                Nest(Concat(<<Ok(<<"\n">>),
                                              ContractPartDoc(cd.parts[i])>>))],
                             <<"\n">>),
                 Ok(<<"\n">>), Ok(<<"}">>)>>)

\* impl Docable for SourceUnitPart: the arms of ContractDefinition and
\* EventDefinition and the arm that panics; the source units printed here
\* hold no pragma, import, error or enum.
SourceUnitPartDoc(part) ==
    CASE part.tag = "ContractDefinition" -> ContractDefinitionDoc(part.inner)
      [] part.tag = "EventDefinition" ->
            Concat(<<EventDefinitionDoc(part.inner), Ok(<<";">>)>>)
      [] part.tag \in {"StructDefinition", "FunctionDefinition",
                       "VariableDefinition", "TypeDefinition", "Using",
                       "StraySemicolon"} -> Panic

\* impl Docable for SourceUnit, and display() of it
SourceUnitDoc(unit) ==
    Intersperse([i \in 1..Len(unit.parts) |-> SourceUnitPartDoc(unit.parts[i])],
                <<"\n">>)

\* Docable::display, on a node of each printable type
Display(v) ==
    CASE v.kind = "Expression" -> ExprDoc(v.val)
      [] v.kind = "Statement" -> StmtDoc(v.val)
      [] v.kind = "Type" -> TypeDoc(v.val)
      [] v.kind = "FunctionAttribute" -> FunctionAttributeDoc(v.val)
      [] v.kind = "FunctionDefinition" -> FunctionDefinitionDoc(v.val)
      [] v.kind = "EventDefinition" -> EventDefinitionDoc(v.val)
      [] v.kind = "ContractDefinition" -> ContractDefinitionDoc(v.val)
      [] v.kind = "SourceUnit" -> SourceUnitDoc(v.val)

(***************************************************************************)
(* The lexer and the parser, for the source units that hold contracts,     *)
(* events and stray semicolons.  Every node is placed at one File          *)
(* location: no function modelled here reads the offsets of a parsed node. *)
(***************************************************************************)
\* The tokens of a text: blanks and newlines separate, a bracket, comma or
\* semicolon is a token alone, other characters run together into a word.
Lex(text) ==
    LET Alone == {"{", "}", "(", ")", ",", ";"}
        Blank(i) == text[i] \in {" ", "\n"}
        InWord(i) == ~Blank(i) /\ text[i] \notin Alone
        \* the first and the last character of the token met first from i on
        Span(i) ==
            Only({<<a, IF text[a] \in Alone THEN a
                       ELSE CHOOSE b \in a..Len(text) :
                                /\ \A k \in a..b : InWord(k)
                                /\ b = Len(text) \/ ~InWord(b + 1)>> :
                    a \in {CHOOSE a \in i..Len(text) :
                                ~Blank(a) /\ \A k \in i..(a - 1) : Blank(k)}})
        RECURSIVE Tokens(_)
        Tokens(i) ==
            IF \A k \in i..Len(text) : Blank(k) THEN <<>>
            ELSE Only({<<SubSeq(text, s[1], s[2])>> \o Tokens(s[2] + 1) :
                        s \in {Span(i)}})
    IN  Tokens(1)

\* The grammar over the tokens: the SourceUnit, or the error.
ParseTokens(toks) ==
    LET n == Len(toks)
        At == LocFile(0, 0, 1)
        Fail == [ok |-> FALSE]
        Got(v, next) == [ok |-> TRUE, val |-> v, next |-> next]
        Is(i, w) == i <= n /\ toks[i] = w
        Reserved ==
            {Str[k] : k \in DOMAIN Str}
            \cup {<<c>> : c \in {"{", "}", "(", ")", ",", ";"}}
        IsIdent(i) == i <= n /\ toks[i] \notin Reserved
        Type(i) ==
            IF Is(i, Str.bool) THEN Got(ExprType(At, [tag |-> "Bool"]), i + 1)
            ELSE IF Is(i, Str.address)
                 THEN Got(ExprType(At, [tag |-> "Address"]), i + 1)
            ELSE IF IsIdent(i)
                 THEN Got(Variable(Identifier(At, toks[i])), i + 1)
            ELSE Fail
        \* Type "indexed"? Identifier?
        Param(i) ==
            Only({IF ~t.ok THEN Fail
                  ELSE LET indexed == Is(t.next, Str.indexed)
                           j == IF indexed THEN t.next + 1 ELSE t.next
                       IN  IF IsIdent(j)
                           THEN Got(EventParameter(t.val, At, indexed,
                                        Some(Identifier(At, toks[j]))),
                                    j + 1)
                           ELSE Got(EventParameter(t.val, At, indexed, None), j) :
                    t \in {Type(i)}})
        \* after "(": ")" or Param ("," Param)* ")"
        RECURSIVE Params(_, _)
        Params(i, acc) ==
            IF Is(i, <<")">>) /\ Len(acc) = 0 THEN Got(acc, i + 1)
            ELSE Only({IF ~p.ok THEN Fail
                       ELSE IF Is(p.next, <<",">>)
                            THEN Params(p.next + 1, Append(acc, p.val))
                       ELSE IF Is(p.next, <<")">>)
                            THEN Got(Append(acc, p.val), p.next + 1)
                       ELSE Fail :
                        p \in {Param(i)}})
        \* "event" Identifier "(" Params ")" "anonymous"? ";"
        Event(i) ==
            IF ~(Is(i, Str.event) /\ IsIdent(i + 1) /\ Is(i + 2, <<"(">>))
            THEN Fail
            ELSE Only({IF ~ps.ok THEN Fail
                       ELSE LET anon == Is(ps.next, Str.anonymous)
                                j == IF anon THEN ps.next + 1 ELSE ps.next
                            IN  IF Is(j, <<";">>)
                                THEN Got(EventDefinition(At,
                                            Identifier(At, toks[i + 1]),
                                            ps.val, anon),
                                         j + 1)
                                ELSE Fail :
                        ps \in {Params(i + 3, <<>>)}})
        \* ";" or an event, in a contract or at the top
        Part(i) ==
            IF Is(i, <<";">>)
            THEN Got([tag |-> "StraySemicolon", loc |-> At], i + 1)
            ELSE Only({IF ev.ok
                       THEN Got([tag |-> "EventDefinition", inner |-> ev.val],
                                ev.next)
                       ELSE Fail :
                        ev \in {Event(i)}})
        \* after "{": Part* "}"
        RECURSIVE Parts(_, _)
        Parts(i, acc) ==
            IF Is(i, <<"}">>) THEN Got(acc, i + 1)
            ELSE Only({IF p.ok THEN Parts(p.next, Append(acc, p.val)) ELSE Fail :
                        p \in {Part(i)}})
        \* ("abstract" "contract" | "contract" | "interface" | "library")
        \* Identifier "{" Part* "}"
        Contract(i) ==
            LET abs == Is(i, Str.abstract)
                k == IF abs THEN i + 1 ELSE i
                ty == IF abs
                      THEN (IF Is(k, Str.contract) THEN "Abstract" ELSE "")
                      ELSE IF Is(k, Str.contract) THEN "Contract"
                      ELSE IF Is(k, Str.interface) THEN "Interface"
                      ELSE IF Is(k, Str.library) THEN "Library"
                      ELSE ""
            IN  IF ty = "" \/ ~IsIdent(k + 1) \/ ~Is(k + 2, <<"{">>) THEN Fail
                ELSE Only({IF ~body.ok THEN Fail
                           ELSE Got([tag |-> "ContractDefinition", loc |-> At,
                                     ty |-> [tag |-> ty, loc |-> At],
                                     name |-> Identifier(At, toks[k + 1]),
                                     base |-> <<>>, parts |-> body.val],
                                    body.next) :
                            body \in {Parts(k + 3, <<>>)}})
        \* (Contract | Part)*
        RECURSIVE Unit(_, _)
        Unit(i, acc) ==
            IF i > n THEN Ok([tag |-> "SourceUnit", parts |-> acc])
            ELSE Only({IF ~d.ok THEN Fail
                       ELSE Unit(d.next, Append(acc, d.val)) :
                        d \in {Only({IF c.ok
                                     THEN Got([tag |-> "ContractDefinition",
                                               inner |-> c.val], c.next)
                                     ELSE Part(i) :
                                        c \in {Contract(i)}})}})
    IN  Unit(1, <<>>)

\* SourceUnitParser::parse(src, 0, Lexer::new(src, ..))
Parse(text) == Only({ParseTokens(toks) : toks \in {Lex(text)}})

\* Source texts: contracts of every kind holding up to MaxParts parts, alone
\* or after an event, and a few texts that are not Solidity or hold a part
\* the printer does not print.
PrintInputs ==
    LET Words(ws) ==
            LET RECURSIVE Join(_)
                Join(i) == IF i > Len(ws) THEN <<>>
                           ELSE IF i = Len(ws) THEN ws[i]
                           ELSE ws[i] \o <<" ">> \o Join(i + 1)
            IN  Join(1)
        RECURSIVE Flat(_)
        Flat(s) == IF Len(s) = 0 THEN <<>> ELSE s[1] \o Flat(Tail(s))
        Heads == {<<Str.contract>>, <<Str.interface>>, <<Str.library>>,
                  <<Str.abstract, Str.contract>>}
        Ev(ps, tail) == <<Str.event, <<"E">>, <<"(">>>> \o ps \o <<<<")">>>> \o tail
        PartToks ==
            {<<<<";">>>>,
             Ev(<<>>, <<<<";">>>>),
             Ev(<<>>, <<Str.anonymous, <<";">>>>),
             Ev(<<Str.bool, Str.indexed, <<"x">>, <<",">>, Str.address>>,
                <<<<";">>>>)}
        Contracts ==
            {h \o <<<<"C">>, <<"{">>>> \o Flat(ps) \o <<<<"}">>>> :
                h \in Heads, ps \in SeqsUpTo(PartToks, MaxParts)}
    IN  {Words(c) : c \in Contracts}
        \cup {Words(Ev(<<>>, <<<<";">>>>) \o c) : c \in Contracts}
        \cup {Words(<<<<";">>>>), Words(<<Str.contract, <<"{">>, <<"}">>>>),
              Words(<<Str.event, <<"E">>, <<"(">>, <<",">>, <<")">>, <<";">>>>)}

(***************************************************************************)
(* Loc group: a == b, hash, the range and the splice calls on Loc values  *)
(***************************************************************************)
LocInit ==
    /\ locA \in Loc
    /\ locB \in Loc
    /\ locOut = Idle
    /\ Resting("Loc")

LocEqCall ==
    /\ locOut' = [op |-> "eq", val |-> LocEq(locA, locB)]
    /\ UNCHANGED <<locA, locB>>
    /\ OthersUnchanged("Loc")

LocHashCall ==
    /\ locOut' = [op |-> "hash", ha |-> LocHash(locA), hb |-> LocHash(locB)]
    /\ UNCHANGED <<locA, locB>>
    /\ OthersUnchanged("Loc")

\* locA.cmp(&locB), beside locA == locB
LocCmpCall ==
    /\ locOut' = [op |-> "cmp", eq |-> LocEq(locA, locB),
                  ord |-> LocCmp(locA, locB)]
    /\ UNCHANGED <<locA, locB>>
    /\ OthersUnchanged("Loc")

\* locA.begin_range()
BeginRangeCall ==
    /\ locOut' = [op |-> "begin_range", self |-> locA, val |-> begin_range(locA)]
    /\ UNCHANGED <<locA, locB>>
    /\ OthersUnchanged("Loc")

\* locA.end_range()
EndRangeCall ==
    /\ locOut' = [op |-> "end_range", self |-> locA, val |-> end_range(locA)]
    /\ UNCHANGED <<locA, locB>>
    /\ OthersUnchanged("Loc")

\* locA.use_end_from(&locB): locA is written unless the call panics
UseEndFromCall ==
    LET res == use_end_from(locA, locB)
    IN  /\ locA' = IF res.ok THEN res.val ELSE locA
        /\ locOut' = [op |-> "use_end_from", self |-> locA, other |-> locB,
                      ok |-> res.ok]
        /\ UNCHANGED locB
        /\ OthersUnchanged("Loc")

\* locA.use_start_from(&locB): locA is written unless the call panics
UseStartFromCall ==
    LET res == use_start_from(locA, locB)
    IN  /\ locA' = IF res.ok THEN res.val ELSE locA
        /\ locOut' = [op |-> "use_start_from", self |-> locA, other |-> locB,
                      ok |-> res.ok]
        /\ UNCHANGED locB
        /\ OthersUnchanged("Loc")

LocNext ==
    \/ LocEqCall
    \/ LocHashCall
    \/ LocCmpCall
    \/ BeginRangeCall
    \/ EndRangeCall
    \/ UseEndFromCall
    \/ UseStartFromCall

SpecLoc == LocInit /\ [][LocNext]_vars

(***************************************************************************)
(* Node group: loc() on a node, remove_parenthesis on an expression        *)
(***************************************************************************)
NodeInit ==
    /\ node \in NodeInputs
    /\ held = node.val
    /\ prev = node.val
    /\ calls = 0
    /\ nodeOut = Idle
    /\ Resting("Node")

\* node.loc()
LocCall ==
    /\ nodeOut' = [op |-> "loc", res |-> NodeLoc(node)]
    /\ UNCHANGED <<node, held, prev, calls>>
    /\ OthersUnchanged("Node")

\* held = held.remove_parenthesis()
RemoveParenthesisCall ==
    /\ node.kind = "Expression"
    /\ calls < MaxCalls
    /\ prev' = held
    /\ held' = RemoveParenthesis(held)
    /\ calls' = calls + 1
    /\ UNCHANGED <<node, nodeOut>>
    /\ OthersUnchanged("Node")

NodeNext == LocCall \/ RemoveParenthesisCall

SpecNode == NodeInit /\ [][NodeNext]_vars

(***************************************************************************)
(* Path group: to_string() of an IdentifierPath                            *)
(***************************************************************************)
PathInit ==
    /\ idPath \in PathInputs
    /\ idPathOut = Idle
    /\ Resting("Path")

\* idPath.to_string()
PathDisplayCall ==
    /\ idPathOut' = [op |-> "fmt", text |-> IdentifierPathFmt(idPath)]
    /\ UNCHANGED idPath
    /\ OthersUnchanged("Path")

PathNext == PathDisplayCall

SpecPath == PathInit /\ [][PathNext]_vars

(***************************************************************************)
(* Codegen group: one call of a builder of codegen.rs.  cgCall names the   *)
(* builder and holds its arguments, cgOut what it returned.                *)
(***************************************************************************)
CodegenInit ==
    /\ cgCall = Idle
    /\ cgOut = Idle
    /\ Resting("Codegen")

\* What a call that may panic leaves in cgOut: res holding a value of the
\* given type, or the panic.
ReturnedOrPanicked(kind, res) == IF res.ok THEN Ok(Val(kind, res.val)) ELSE Panic

IdCall ==
    \E name \in CgInputs.names :
        /\ cgCall = Idle
        /\ cgCall' = [op |-> "id", args |-> <<Val("String", name)>>]
        /\ cgOut' = Ok(Val("Identifier", id(name)))
        /\ OthersUnchanged("Codegen")

VarExprCall ==
    \E name \in CgInputs.names :
        /\ cgCall = Idle
        /\ cgCall' = [op |-> "var_expr", args |-> <<Val("String", name)>>]
        /\ cgOut' = Ok(Val("Expression", var_expr(name)))
        /\ OthersUnchanged("Codegen")

TypeExprCall ==
    \E ty \in CgInputs.types :
        /\ cgCall = Idle
        /\ cgCall' = [op |-> "type_expr", args |-> <<Val("Type", ty)>>]
        /\ cgOut' = Ok(Val("Expression", type_expr(ty)))
        /\ OthersUnchanged("Codegen")

CallExprCall ==
    \E name \in CgInputs.names, args \in SeqsUpTo(CgInputs.exprs, MaxList) :
        /\ cgCall = Idle
        /\ cgCall' = [op |-> "call_expr",
                      args |-> <<Val("String", name),
                                 Val("Vec<Expression>", args)>>]
        /\ cgOut' = Ok(Val("Expression", call_expr(name, args)))
        /\ OthersUnchanged("Codegen")

EmitStmtCall ==
    \E name \in CgInputs.names, args \in SeqsUpTo(CgInputs.exprs, MaxList) :
        /\ cgCall = Idle
        /\ cgCall' = [op |-> "emit_stmt",
                      args |-> <<Val("String", name),
                                 Val("Vec<Expression>", args)>>]
        /\ cgOut' = Ok(Val("Statement", emit_stmt(name, args)))
        /\ OthersUnchanged("Codegen")

BlockStmtCall ==
    \E stmts \in SeqsUpTo(CgInputs.stmts, MaxList) :
        /\ cgCall = Idle
        /\ cgCall' = [op |-> "block_stmt",
                      args |-> <<Val("Vec<Statement>", stmts)>>]
        /\ cgOut' = Ok(Val("Statement", block_stmt(stmts)))
        /\ OthersUnchanged("Codegen")

EventDefCall ==
    \E name \in CgInputs.names,
       params \in SeqsUpTo(CgInputs.eventParameters, MaxList) :
        /\ cgCall = Idle
        /\ cgCall' = [op |-> "event_def",
                      args |-> <<Val("String", name),
                                 Val("Vec<EventParameter>", params)>>]
        /\ cgOut' = Ok(Val("EventDefinition", event_def(name, params)))
        /\ OthersUnchanged("Codegen")

FunctionDefCall ==
    \E name \in CgInputs.names, params \in SeqsUpTo(CgInputs.slots, MaxList),
       ret \in SeqsUpTo(CgInputs.types, 1), body \in CgInputs.bodies :
        /\ cgCall = Idle
        /\ cgCall' = [op |-> "function_def",
                      args |-> <<Val("String", name),
                                 Val("ParameterList", params),
                                 Val("Option<Type>", ret),
                                 Val("Statement", body)>>]
        /\ cgOut' = Ok(Val("FunctionDefinition",
                            function_def(name, params, ret, body)))
        /\ OthersUnchanged("Codegen")

AnnonParameterCall ==
    \E ty \in CgInputs.types :
        /\ cgCall = Idle
        /\ cgCall' = [op |-> "annon_parameter", args |-> <<Val("Type", ty)>>]
        /\ cgOut' = Ok(Val("Parameter", annon_parameter(ty)))
        /\ OthersUnchanged("Codegen")

EventParameterCall ==
    \E name \in CgInputs.names, ty \in CgInputs.types :
        /\ cgCall = Idle
        /\ cgCall' = [op |-> "event_parameter",
                      args |-> <<Val("String", name),
                                 Val("Type", ty)>>]
        /\ cgOut' = Ok(Val("EventParameter", event_parameter(name, ty)))
        /\ OthersUnchanged("Codegen")

ParameterCall ==
    \E name \in CgInputs.names, ty \in CgInputs.types :
        /\ cgCall = Idle
        /\ cgCall' = [op |-> "parameter",
                      args |-> <<Val("String", name),
                                 Val("Type", ty)>>]
        /\ cgOut' = Ok(Val("Parameter", parameter(name, ty)))
        /\ OthersUnchanged("Codegen")

AnnonParameterListCall ==
    \E params \in SeqsUpTo(CgInputs.types, MaxList) :
        /\ cgCall = Idle
        /\ cgCall' = [op |-> "annon_parameter_list",
                      args |-> <<Val("Vec<Type>", params)>>]
        /\ cgOut' = Ok(Val("ParameterList", annon_parameter_list(params)))
        /\ OthersUnchanged("Codegen")

ParameterListCall ==
    \E params \in SeqsUpTo(CgInputs.names \X CgInputs.plainTypes, MaxList) :
        /\ cgCall = Idle
        /\ cgCall' = [op |-> "parameter_list",
                      args |-> <<Val("Vec<(String, Type)>", params)>>]
        /\ cgOut' = Ok(Val("ParameterList", parameter_list(params)))
        /\ OthersUnchanged("Codegen")

ParamsToEventParamsCall ==
    \E params \in SeqsUpTo(CgInputs.slots, MaxList) :
        /\ cgCall = Idle
        /\ cgCall' = [op |-> "params_to_event_params",
                      args |-> <<Val("ParameterList", params)>>]
        /\ cgOut' = ReturnedOrPanicked("Vec<EventParameter>",
                           params_to_event_params(params))
        /\ OthersUnchanged("Codegen")

ParamToEventParamCall ==
    \E param \in CgInputs.parameters :
        /\ cgCall = Idle
        /\ cgCall' = [op |-> "param_to_event_param",
                      args |-> <<Val("Parameter", param)>>]
        /\ cgOut' = Ok(Val("EventParameter", param_to_event_param(param)))
        /\ OthersUnchanged("Codegen")

ParamsToArgsCall ==
    \E params \in SeqsUpTo(CgInputs.slots, MaxList) :
        /\ cgCall = Idle
        /\ cgCall' = [op |-> "params_to_args",
                      args |-> <<Val("ParameterList", params)>>]
        /\ cgOut' = ReturnedOrPanicked("Vec<Expression>",
                           params_to_args(params))
        /\ OthersUnchanged("Codegen")

ParamToArgCall ==
    \E param \in CgInputs.parameters :
        /\ cgCall = Idle
        /\ cgCall' = [op |-> "param_to_arg",
                      args |-> <<Val("Parameter", param)>>]
        /\ cgOut' = ReturnedOrPanicked("Expression", param_to_arg(param))
        /\ OthersUnchanged("Codegen")

CodegenNext ==
    \/ IdCall
    \/ VarExprCall
    \/ TypeExprCall
    \/ CallExprCall
    \/ EmitStmtCall
    \/ BlockStmtCall
    \/ EventDefCall
    \/ FunctionDefCall
    \/ AnnonParameterCall
    \/ EventParameterCall
    \/ ParameterCall
    \/ AnnonParameterListCall
    \/ ParameterListCall
    \/ ParamsToEventParamsCall
    \/ ParamToEventParamCall
    \/ ParamsToArgsCall
    \/ ParamToArgCall

SpecCodegen == CodegenInit /\ [][CodegenNext]_vars

(***************************************************************************)
(* Eq group: a == b on two nodes of one type, by derive(PartialEq), and    *)
(* the texts of the two nodes                                              *)
(***************************************************************************)
\* What the derived eq sees of a location.  Loc fields are compared by
\* impl PartialEq for Loc, so a Loc stands for the first Loc it is equal
\* to; an Option<Loc> is compared by the eq of Option, None against None
\* and Some(a) against Some(b) by a == b.
DerivedEqRule ==
    LET Key(l) == CHOOSE r \in Loc : LocEq(l, r)
    IN  [loc |-> [l \in Loc |-> Key(l)],
         opt |-> [o \in OptLoc |-> IF o = None THEN None ELSE Some(Key(o[1]))]]

\* derive(PartialEq) on two values of one type: the same variant, and the
\* fields pairwise equal.
PtEq(a, b) ==
    /\ a.kind = b.kind
    /\ RelocVal(DerivedEqRule, a) = RelocVal(DerivedEqRule, b)

\* Nodes as the builders make them, and the same nodes as a parser makes
\* them: at File locations, with the location of the visibility keyword
\* and of a "return" written for "returns" present or absent.
EqInputs ==
    LET FileAt(n) == LocFile(0, n, n + 1)
        Bool == [tag |-> "Bool"]
        Parsed(n, some) ==
            [loc |-> [l \in Loc |-> FileAt(n)],
             opt |-> [o \in OptLoc |->
                        IF some \/ o # None THEN Some(FileAt(n)) ELSE None]]
        Rules == {Parsed(n, some) : n \in 0..1, some \in BOOLEAN}
        Attr(tag, inner) == [tag |-> tag, inner |-> inner]
        Built ==
            {Val("FunctionDefinition", function_def(name, params, ret, body)) :
                name \in CgInputs.names,
                params \in {<<>>, parameter_list(<<<<(<<"x">>), Bool>>>>)},
                ret \in {None, Some(Bool)},
                body \in {block_stmt(<<>>),
                          block_stmt(<<emit_stmt(<<"H", "i", "t">>, <<>>)>>)}}
            \cup {Val("FunctionAttribute", Attr("Visibility", [tag |-> t, loc |-> None])) :
                    t \in {"Public", "External"}}
            \cup {Val("EventDefinition",
                      event_def(<<"H", "i", "t">>, <<event_parameter(<<"x">>, Bool)>>)),
                  Val("Expression", call_expr(<<"x">>, <<var_expr(<<"x">>)>>)),
                  Val("Expression", var_expr(<<"x">>)),
                  Val("EventDefinition",
                      EventDefinition(LocCodegen, id(<<"H", "i", "t">>),
                                      <<event_parameter(<<"x">>, Bool)>>, TRUE))}
            \cup {Val("FunctionAttribute",
                      Attr("Mutability", [tag |-> t, loc |-> LocCodegen])) :
                    t \in {"Constant", "View"}}
            \cup {Val("ContractDefinition",
                      [tag |-> "ContractDefinition", loc |-> LocCodegen,
                       ty |-> [tag |-> ty, loc |-> LocCodegen],
                       name |-> id(<<"C">>), base |-> <<>>, parts |-> <<>>]) :
                    ty \in {"Abstract", "Contract", "Interface", "Library"}}
            \cup {Val("Statement", Block(LocCodegen, unchecked, <<>>)) :
                    unchecked \in BOOLEAN}
            \cup {Val("Expression",
                      [tag |-> "NumberLiteral", loc |-> LocCodegen,
                       value |-> <<"1">>, exp |-> exp]) :
                    exp \in {<<>>, <<"2">>}}
    IN  Built \cup {Val(v.kind, RelocVal(r, v)) : r \in Rules, v \in Built}

EqInit ==
    /\ eqA \in EqInputs
    /\ eqB \in {b \in EqInputs : b.kind = eqA.kind}
    /\ eqOut = Idle
    /\ Resting("Eq")

\* eqA == eqB
EqCall ==
    /\ eqOut' = [op |-> "eq", val |-> PtEq(eqA, eqB)]
    /\ UNCHANGED <<eqA, eqB>>
    /\ OthersUnchanged("Eq")

\* eqA.display() and eqB.display()
DisplayPairCall ==
    /\ eqOut' = [op |-> "display", a |-> Display(eqA), b |-> Display(eqB)]
    /\ UNCHANGED <<eqA, eqB>>
    /\ OthersUnchanged("Eq")

EqNext == EqCall \/ DisplayPairCall

SpecEq == EqInit /\ [][EqNext]_vars

(***************************************************************************)
(* Print group: a source text is parsed, the tree displayed, the text      *)
(* displayed parsed again (print_test)                                     *)
(***************************************************************************)
PrintInit ==
    /\ prSrc \in {[src |-> s] : s \in PrintInputs}
    /\ prTree = Idle
    /\ prText = Idle
    /\ prTree2 = Idle
    /\ Resting("Print")

\* pt = SourceUnitParser::new().parse(src, 0, lex)
ParseCall ==
    /\ prTree = Idle
    /\ prTree' = Parse(prSrc.src)
    /\ UNCHANGED <<prSrc, prText, prTree2>>
    /\ OthersUnchanged("Print")

\* src_pretty = pt.to_string()
DisplayCall ==
    /\ prTree # Idle
    /\ prTree.ok
    /\ prText = Idle
    /\ prText' = SourceUnitDoc(prTree.val)
    /\ UNCHANGED <<prSrc, prTree, prTree2>>
    /\ OthersUnchanged("Print")

\* the parse of src_pretty
ReparseCall ==
    /\ prText # Idle
    /\ prText.ok
    /\ prTree2 = Idle
    /\ prTree2' = Parse(prText.val)
    /\ UNCHANGED <<prSrc, prTree, prText>>
    /\ OthersUnchanged("Print")

PrintNext == ParseCall \/ DisplayCall \/ ReparseCall

SpecPrint == PrintInit /\ [][PrintNext]_vars

(***************************************************************************)
(* Key group: references to definitions used as keys.  A reference is the  *)
(* address of an allocation on a heap of definitions.                      *)
(***************************************************************************)
\* a == b on two references &'a T: PartialEq for &A compares what the
\* references point to, by the derived eq of T.  "impl Eq for &T {}" adds
\* no code to it.
RefEq(heap, a, b) == PtEq(heap[a], heap[b])

\* impl Hash for &'a T: std::ptr::hash(*self, state), the address
RefHash(heap, a) == a

\* Heaps of function definitions, of contract definitions or of
\* expressions, among them
\* definitions alike in content and definitions alike but for locations.
KeyInit ==
    LET Body == block_stmt(<<>>)
        Parsed == [loc |-> [l \in Loc |-> LocFile(0, 0, 1)],
                   opt |-> [o \in OptLoc |-> o]]
        F == function_def(<<"f">>, <<>>, None, Body)
        Functions ==
            {Val("FunctionDefinition", d) :
                d \in {F, function_def(<<"g">>, <<>>, None, Body),
                       RelocFunctionDefinition(Parsed, F)}}
        Contracts ==
            {Val("ContractDefinition",
                 [tag |-> "ContractDefinition", loc |-> LocCodegen,
                  ty |-> [tag |-> ty, loc |-> LocCodegen],
                  name |-> id(<<"C">>), base |-> <<>>, parts |-> <<>>]) :
                ty \in {"Contract", "Library"}}
        Expressions ==
            {Val("Expression", x) :
                x \in {Variable(id(<<"x">>)), Variable(id(<<"y">>)),
                       Variable(Identifier(LocFile(0, 0, 1), <<"x">>))}}
    IN  /\ keyIn \in {[heap |-> h, a |-> a, b |-> b] :
                        h \in [1..MaxAllocs -> Functions]
                                \cup [1..MaxAllocs -> Contracts]
                                \cup [1..MaxAllocs -> Expressions],
                        a \in 1..MaxAllocs, b \in 1..MaxAllocs}
        /\ keyOut = Idle
        /\ Resting("Key")

\* a == b
KeyEqCall ==
    /\ keyOut' = [op |-> "eq", val |-> RefEq(keyIn.heap, keyIn.a, keyIn.b)]
    /\ UNCHANGED keyIn
    /\ OthersUnchanged("Key")

\* a.hash(state) and b.hash(state)
KeyHashCall ==
    /\ keyOut' = [op |-> "hash", a |-> RefHash(keyIn.heap, keyIn.a),
                                 b |-> RefHash(keyIn.heap, keyIn.b)]
    /\ UNCHANGED keyIn
    /\ OthersUnchanged("Key")

KeyNext == KeyEqCall \/ KeyHashCall

SpecKey == KeyInit /\ [][KeyNext]_vars

(***************************************************************************)
(* Doc group: display() of an expression, a statement, a type or a        *)
(* function definition                                                     *)
(***************************************************************************)
\* The constructs whose arm of the printer is a panic by name, a statement
\* of every other variant, an expression and a type, alone and as a child
\* of every kind of node that has such a child, to MaxDepth levels, and
\* function definitions.  holds names the constructs of the first kind
\* that were put into the node, depth the levels around the innermost node.
DocInputs ==
    LET L == LocFile(0, 0, 1)
        VarX == Variable(Identifier(L, <<"x">>))
        Continue == [tag |-> "Continue", loc |-> L]
        Bool == [tag |-> "Bool"]
        In(kind, val, holds, depth) ==
            [kind |-> kind, val |-> val, holds |-> holds, depth |-> depth]
        Seeds ==
            {In("Statement", s, {s.tag}, 0) :
                s \in {x \in StmtInputs :
                        /\ x.loc = L
                        /\ x.tag \in {"Assembly", "RevertNamedArgs", "Try"}}}
            \cup {In("Expression", e, {e.tag}, 0) :
                    e \in {[tag |-> "ArraySlice", loc |-> L, expr |-> VarX,
                            from |-> None, to |-> Some(VarX)],
                           [tag |-> "NamedFunctionCall", loc |-> L,
                            fn |-> VarX, args |-> <<>>]}}
            \cup {In("Type", [tag |-> "Function", params |-> <<>>,
                              attributes |-> <<>>, returns |-> None],
                     {"Function"}, 0),
                  In("Type", [tag |-> "Rational"], {"Rational"}, 0),
                  In("Expression", VarX, {}, 0),
                  In("Statement", Continue, {}, 0),
                  In("Type", Bool, {}, 0)}
            \cup {In("Statement", s, {}, 0) :
                    s \in {x \in StmtInputs :
                            /\ x.loc = L
                            /\ x.tag \notin {"Assembly", "RevertNamedArgs",
                                             "Try"}}}
            \cup {In("FunctionDefinition",
                     FunctionDefinition(L, ty, name, L, params, attributes,
                                        None, returns, body),
                     {}, 0) :
                    ty \in {"Constructor", "Function", "Fallback", "Receive",
                            "Modifier"},
                    name \in {None, Some(Identifier(L, <<"f">>))},
                    params \in {<<>>, <<<<L, Some(Parameter(L, ExprType(L, Bool),
                                                            None, None))>>>>},
                    attributes \in
                        {<<>>,
                         <<[tag |-> "Visibility",
                            inner |-> [tag |-> "Public", loc |-> None]],
                           [tag |-> "Mutability",
                            inner |-> [tag |-> "View", loc |-> L]]>>,
                         <<[tag |-> "Mutability",
                            inner |-> [tag |-> "View", loc |-> L]],
                           [tag |-> "Visibility",
                            inner |-> [tag |-> "Public", loc |-> None]]>>},
                    returns \in {<<>>, <<<<L, Some(Parameter(L, ExprType(L, Bool),
                                                             None, None))>>>>},
                    body \in {None, Some(Block(L, FALSE, <<Continue>>))}}
        \* definitions as parts of a contract or of a source unit
        Inside(tag, inner) == [tag |-> tag, inner |-> inner]
        Event(name) ==
            Inside("EventDefinition",
                   EventDefinition(L, Identifier(L, <<name>>), <<>>, FALSE))
        Parts ==
            {Event("A"), Event("B"),
             Inside("FunctionDefinition",
                    FunctionDefinition(
                        L, "Function", Some(Identifier(L, <<"f">>)), L, <<>>,
                        <<[tag |-> "Visibility",
                           inner |-> [tag |-> "Public", loc |-> None]]>>,
                        None, <<>>, Some(Block(L, FALSE, <<Continue>>)))),
             Inside("TypeDefinition",
                    [tag |-> "TypeDefinition", loc |-> L,
                     name |-> Identifier(L, <<"T">>),
                     ty |-> ExprType(L, [tag |-> "Uint", size |-> 256])]),
             [tag |-> "StraySemicolon", loc |-> L]}
        \* the lists of at most MaxParts different elements of S
        Lists(S) ==
            UNION {{l \in [1..n -> S] :
                        \A i, j \in 1..n : l[i] = l[j] => i = j} :
                    n \in 0..MaxParts}
        Contract(name, parts) ==
            [tag |-> "ContractDefinition", loc |-> L,
             ty |-> [tag |-> "Contract", loc |-> L],
             name |-> Identifier(L, <<name>>), base |-> <<>>, parts |-> parts]
        Definitions ==
            {In("ContractDefinition", Contract("C", parts), {}, 0) :
                parts \in Lists(Parts)}
            \cup {In("SourceUnit", [tag |-> "SourceUnit", parts |-> parts],
                     {}, 0) :
                    parts \in Lists(
                        Parts \cup {Inside("ContractDefinition",
                                            Contract("C", <<>>))}
                              \cup {Inside("ContractDefinition",
                                            Contract(IF p.tag = "TypeDefinition"
                                                     THEN "D" ELSE "E", <<p>>)) :
                                        p \in {x \in Parts :
                                                x.tag \in {"TypeDefinition",
                                                           "FunctionDefinition"}}})
                        \ {<<>>}}
        \* the nodes that have n as a child
        Around(n) ==
            LET x == n.val
                E(e) == In("Expression", e, n.holds, n.depth + 1)
                S(s) == In("Statement", s, n.holds, n.depth + 1)
                T(t) == In("Type", t, n.holds, n.depth + 1)
            IN  CASE n.kind = "Expression" ->
                        {E(Parenthesis(L, x)),
                         E([tag |-> "Add", loc |-> L, left |-> VarX, right |-> x]),
                         E([tag |-> "Assign", loc |-> L, left |-> x, right |-> VarX]),
                         E(FunctionCall(L, VarX, <<VarX, x>>)),
                         E(FunctionCall(L, x, <<>>)),
                         E([tag |-> "ArraySubscript", loc |-> L, expr |-> VarX,
                            index |-> Some(x)]),
                         E([tag |-> "ArrayLiteral", loc |-> L, elems |-> <<x>>]),
                         S([tag |-> "Expression", loc |-> L, expr |-> x]),
                         S([tag |-> "Return", loc |-> L, expr |-> Some(x)]),
                         S(Emit(L, x)),
                         S([tag |-> "If", loc |-> L, cond |-> x,
                            then |-> Continue, else |-> None]),
                         S([tag |-> "Revert", loc |-> L, path |-> None,
                            args |-> <<x>>]),
                         T([tag |-> "Mapping", loc |-> L,
                            from |-> ExprType(L, Bool), to |-> x])}
                  [] n.kind = "Statement" ->
                        {S(Block(L, FALSE, <<Continue, x>>)),
                         S([tag |-> "If", loc |-> L, cond |-> VarX,
                            then |-> Continue, else |-> Some(x)]),
                         S([tag |-> "If", loc |-> L, cond |-> VarX,
                            then |-> x, else |-> None]),
                         S([tag |-> "While", loc |-> L, cond |-> VarX,
                            body |-> x]),
                         E([tag |-> "FunctionCallBlock", loc |-> L,
                            fn |-> VarX, block |-> x])}
                  [] n.kind = "Type" ->
                        {E(ExprType(L, x)),
                         E([tag |-> "List", loc |-> L,
                            params |-> <<<<L, Some(Parameter(L, ExprType(L, x),
                                                             None, None))>>>>]),
                         S([tag |-> "VariableDefinition", loc |-> L,
                            decl |-> [loc |-> L, ty |-> ExprType(L, x),
                                      storage |-> None,
                                      name |-> Identifier(L, <<"x">>)],
                            init |-> None])}
                  \* no expression, statement or type holds a definition
                  [] n.kind \in {"FunctionDefinition", "ContractDefinition",
                                 "SourceUnit"} -> {}
        RECURSIVE Nested(_)
        Nested(d) ==
            IF d = 0 THEN Seeds
            ELSE LET inner == Nested(d - 1)
                 IN  inner \cup UNION {Around(n) : n \in inner}
    IN  Nested(MaxDepth) \cup Definitions

DocInit ==
    /\ docIn \in DocInputs
    /\ docOut = Idle
    /\ Resting("Doc")

\* node.display()
DisplayNodeCall ==
    /\ docOut = Idle
    /\ docOut' = Display(docIn)
    /\ UNCHANGED docIn
    /\ OthersUnchanged("Doc")

DocNext == DisplayNodeCall

SpecDoc == DocInit /\ [][DocNext]_vars

(***************************************************************************)
(* Timeout group: timeout_after(d, f) of test_libsolidity.  The spawned    *)
(* thread runs f, sends the completion signal and returns the value; the   *)
(* caller waits in recv_timeout(d) and joins the thread after a signal.    *)
(***************************************************************************)
\* The state after thread::spawn.  f returns a value or panics after len
\* steps, or never ends; the channel has its two ends; d has not elapsed.
TimeoutInit ==
    /\ tmF \in {[ends |-> "returns", len |-> n, val |-> v] :
                    n \in 0..MaxSteps, v \in {"Ok(tree)", "Err(diagnostics)"}}
               \cup {[ends |-> "panics", len |-> n, val |-> "none"] :
                        n \in 0..MaxSteps}
               \cup {[ends |-> "never", len |-> MaxSteps, val |-> "none"]}
    /\ tmWorker = [pc |-> "f", steps |-> 0]
    /\ tmChan = [msgs |-> 0, tx |-> TRUE, rx |-> TRUE]
    /\ tmCaller = [pc |-> "recv_timeout", elapsed |-> FALSE,
                   result |-> [tag |-> "none"]]
    /\ Resting("Timeout")

\* the worker takes a step of f()
FStep ==
    /\ tmWorker.pc = "f"
    /\ tmWorker.steps < tmF.len
    /\ tmWorker' = [tmWorker EXCEPT !.steps = @ + 1]
    /\ UNCHANGED <<tmF, tmChan, tmCaller>>
    /\ OthersUnchanged("Timeout")

\* let val = f(): f returns
FReturn ==
    /\ tmWorker.pc = "f"
    /\ tmF.ends = "returns"
    /\ tmWorker.steps = tmF.len
    /\ tmWorker' = [tmWorker EXCEPT !.pc = "send"]
    /\ UNCHANGED <<tmF, tmChan, tmCaller>>
    /\ OthersUnchanged("Timeout")

\* f panics: the thread unwinds and done_tx is dropped
FPanic ==
    /\ tmWorker.pc = "f"
    /\ tmF.ends = "panics"
    /\ tmWorker.steps = tmF.len
    /\ tmWorker' = [tmWorker EXCEPT !.pc = "panicked"]
    /\ tmChan' = [tmChan EXCEPT !.tx = FALSE]
    /\ UNCHANGED <<tmF, tmCaller>>
    /\ OthersUnchanged("Timeout")

\* done_tx.send(()).expect(..): an error, and the panic of expect, when the
\* receiver has been dropped
Send ==
    /\ tmWorker.pc = "send"
    /\ IF tmChan.rx
       THEN /\ tmChan' = [tmChan EXCEPT !.msgs = @ + 1]
            /\ tmWorker' = [tmWorker EXCEPT !.pc = "return"]
       ELSE /\ tmChan' = [tmChan EXCEPT !.tx = FALSE]
            /\ tmWorker' = [tmWorker EXCEPT !.pc = "panicked"]
    /\ UNCHANGED <<tmF, tmCaller>>
    /\ OthersUnchanged("Timeout")

\* the closure returns val: the thread ends and done_tx is dropped
WorkerExit ==
    /\ tmWorker.pc = "return"
    /\ tmWorker' = [tmWorker EXCEPT !.pc = "finished"]
    /\ tmChan' = [tmChan EXCEPT !.tx = FALSE]
    /\ UNCHANGED <<tmF, tmCaller>>
    /\ OthersUnchanged("Timeout")

\* the duration d elapses while the caller waits
DeadlinePasses ==
    /\ tmCaller.pc = "recv_timeout"
    /\ ~tmCaller.elapsed
    /\ tmCaller' = [tmCaller EXCEPT !.elapsed = TRUE]
    /\ UNCHANGED <<tmF, tmWorker, tmChan>>
    /\ OthersUnchanged("Timeout")

\* done_rx.recv_timeout(d) is Ok(_): a signal is in the channel
RecvOk ==
    /\ tmCaller.pc = "recv_timeout"
    /\ tmChan.msgs > 0
    /\ tmChan' = [tmChan EXCEPT !.msgs = @ - 1]
    /\ tmCaller' = [tmCaller EXCEPT !.pc = "join"]
    /\ UNCHANGED <<tmF, tmWorker>>
    /\ OthersUnchanged("Timeout")

\* done_rx.recv_timeout(d) is Err(Disconnected): no signal and no sender.
\* The arm Err(_) returns the error text; done_rx and handle are dropped,
\* which detaches the thread.
RecvDisconnected ==
    /\ tmCaller.pc = "recv_timeout"
    /\ tmChan.msgs = 0
    /\ ~tmChan.tx
    /\ tmCaller' = [tmCaller EXCEPT
                        !.pc = "returned",
                        !.result = [tag |-> "Err", text |-> "Thread timeout-ed"]]
    /\ tmChan' = [tmChan EXCEPT !.rx = FALSE]
    /\ UNCHANGED <<tmF, tmWorker>>
    /\ OthersUnchanged("Timeout")

\* done_rx.recv_timeout(d) is Err(Timeout): no signal when d has elapsed.
\* The arm Err(_) returns the error text; done_rx and handle are dropped,
\* which detaches the thread.
RecvTimeout ==
    /\ tmCaller.pc = "recv_timeout"
    /\ tmChan.msgs = 0
    /\ tmCaller.elapsed
    /\ tmCaller' = [tmCaller EXCEPT
                        !.pc = "returned",
                        !.result = [tag |-> "Err", text |-> "Thread timeout-ed"]]
    /\ tmChan' = [tmChan EXCEPT !.rx = FALSE]
    /\ UNCHANGED <<tmF, tmWorker>>
    /\ OthersUnchanged("Timeout")

\* Ok(handle.join().expect("Thread panicked")): waits for the thread to end
Join ==
    /\ tmCaller.pc = "join"
    /\ tmWorker.pc \in {"finished", "panicked"}
    /\ tmCaller' = [tmCaller EXCEPT
                        !.pc = "returned",
                        !.result = IF tmWorker.pc = "finished"
                                   THEN [tag |-> "Ok", val |-> tmF.val]
                                   ELSE [tag |-> "Panic",
                                         text |-> "Thread panicked"]]
    /\ tmChan' = [tmChan EXCEPT !.rx = FALSE]
    /\ UNCHANGED <<tmF, tmWorker>>
    /\ OthersUnchanged("Timeout")

TimeoutNext ==
    \/ FStep
    \/ FReturn
    \/ FPanic
    \/ Send
    \/ WorkerExit
    \/ DeadlinePasses
    \/ RecvOk
    \/ RecvDisconnected
    \/ RecvTimeout
    \/ Join

SpecTimeout == TimeoutInit /\ [][TimeoutNext]_vars

\* C1: any two Loc values, of any variants and contents, compare equal.
C1_LocEqTrivial == locOut.op = "eq" => locOut.val = TRUE

\* a == b has been evaluated on two Loc values of different variants
C1_Witness ==
    /\ locOut.op = "eq"
    /\ locA.tag = "File"
    /\ locB.tag = "Codegen"

\* C2: two Loc values that compare equal (any two) hash alike.
C2_HashConsistent ==
    (locOut.op = "hash" /\ LocEq(locA, locB)) => locOut.ha = locOut.hb

\* The value with every location it holds erased: each Loc replaced by one
\* fixed Loc, each Option<Loc> by None.
C3_Erased(v) ==
    RelocVal([loc |-> [l \in Loc |-> LocImplicit],
              opt |-> [o \in OptLoc |-> None]], v)

\* C3: a == b on two nodes of one type holds exactly when the two are
\* identical once every location they hold, optional ones included, is
\* erased.
C3_EqIgnoresLocsOnly ==
    eqOut.op = "eq" => (eqOut.val <=> C3_Erased(eqA) = C3_Erased(eqB))

\* C4: whenever a source text parses and the display of its tree does not
\* fail, the text displayed parses, to a tree equal to the first.
C4_RoundTrip ==
    prTree2 # Idle =>
        /\ prTree2.ok
        /\ PtEq(Val("SourceUnit", prTree2.val), Val("SourceUnit", prTree.val))

\* C6: loc() never faults, on any Expression, Statement or YulStatement
\* value, string-literal and hex-literal sequences of length zero included.
C6_LocTotal == nodeOut.op = "loc" => nodeOut.res.ok

\* C7 as stated: on any expression, a second remove_parenthesis returns
\* what the first returned.
C7_Idempotent == calls >= 2 => held = prev

\* C7 amended: a further remove_parenthesis returns what the call before
\* it returned, whenever that was not itself a Parenthesis.
C7_IdempotentUnlessNested ==
    (calls >= 2 /\ prev.tag # "Parenthesis") => held = prev

\* a grouped expression peeled twice, the first call having reached the
\* operand
C7_Witness ==
    /\ calls = 2
    /\ node.val.tag = "Parenthesis"
    /\ prev.tag # "Parenthesis"
    /\ held = prev

\* C8: remove_parenthesis peels exactly one layer: wrapping its result in
\* the layer it was given restores a Parenthesis argument, and any other
\* argument is returned as it is.
C8_PeelsOneLayer ==
    calls >= 1 =>
        /\ prev.tag = "Parenthesis" => Parenthesis(prev.loc, held) = prev
        /\ prev.tag # "Parenthesis" => held = prev

\* a Parenthesis around a Parenthesis has been peeled once and the inner
\* Parenthesis is what came back
C8_Witness ==
    /\ calls = 1
    /\ prev.tag = "Parenthesis"
    /\ held.tag = "Parenthesis"
    /\ prev.expr = held

\* The pieces of a text between its dots: one more piece than dots, a
\* leading, trailing or doubled dot giving an empty piece.
C9_SplitAtDots(text) ==
    LET RECURSIVE Split(_, _, _)
        Split(i, piece, done) ==
            IF i > Len(text) THEN Append(done, piece)
            ELSE IF text[i] = "." THEN Split(i + 1, <<>>, Append(done, piece))
            ELSE Split(i + 1, Append(piece, text[i]), done)
    IN  Split(1, <<>>, <<>>)

\* C9: an empty IdentifierPath displays as the empty string; any other
\* displays as its identifier names in order, separated by single dots
\* with none leading or trailing.
C9_PathDisplay ==
    idPathOut.op = "fmt" =>
        IF Len(idPath.identifiers) = 0
        THEN idPathOut.text = <<>>
        ELSE C9_SplitAtDots(idPathOut.text)
                = [i \in 1..Len(idPath.identifiers) |-> idPath.identifiers[i].name]

\* a path of several identifiers has been displayed
C9_Witness ==
    /\ idPathOut.op = "fmt"
    /\ Len(idPath.identifiers) = MaxIdents
    /\ idPath.identifiers[1].name # idPath.identifiers[2].name

\* Every location the value holds, at any depth, is Codegen.
C5_AllCodegen(v) == RelocVal(StampCodegen, v) = v.val

\* The locations of the nodes at the top of a returned value: of the node
\* itself, or of every element when a list is returned.
C5_OwnLocs(v) ==
    CASE v.kind = "Expression" -> {ExprLoc(v.val).val}
      [] v.kind = "Vec<Expression>" ->
            {ExprLoc(v.val[i]).val : i \in 1..Len(v.val)}
      [] v.kind = "Vec<EventParameter>" ->
            {v.val[i].loc : i \in 1..Len(v.val)}
      [] v.kind = "ParameterList" ->
            {v.val[i][1] : i \in 1..Len(v.val)}
            \cup {v.val[i][2][1].loc : i \in {j \in 1..Len(v.val) : v.val[j][2] # None}}
      [] v.kind = "FunctionDefinition" -> {v.val.loc, v.val.name_loc}
      [] OTHER -> {v.val.loc}

\* C5 as stated: whatever a builder is given, every location in what it
\* returns is Codegen, at any depth.
C5_CodegenEverywhere == (cgCall # Idle /\ cgOut.ok) => C5_AllCodegen(cgOut.val)

\* C5 amended: the node a builder returns (every element, for a list) has
\* the location Codegen whatever the builder is given, and every location
\* in it at any depth is Codegen when every location in the arguments is.
C5_CodegenOwnNodes ==
    (cgCall # Idle /\ cgOut.ok) =>
        /\ C5_OwnLocs(cgOut.val) \subseteq {LocCodegen}
        /\ (\A i \in 1..Len(cgCall.args) : C5_AllCodegen(cgCall.args[i]))
                => C5_AllCodegen(cgOut.val)

\* function_def has been given a parameter list, a return type and a body
\* built by the builders, and has returned
C5_Witness ==
    /\ cgCall # Idle
    /\ cgCall.op = "function_def"
    /\ cgOut.ok
    /\ Len(cgCall.args[2].val) = 2
    /\ Len(cgCall.args[3].val) = 1
    /\ \A i \in 1..Len(cgCall.args) : C5_AllCodegen(cgCall.args[i])

\* C10: block_stmt(xs) is a Block with unchecked set, at Codegen, holding
\* exactly xs in order, for every xs.
C10_BlockStmt ==
    (cgCall # Idle /\ cgCall.op = "block_stmt") =>
        /\ cgOut.ok
        /\ cgOut.val.kind = "Statement"
        /\ cgOut.val.val.tag = "Block"
        /\ cgOut.val.val.unchecked = TRUE
        /\ cgOut.val.val.loc = LocCodegen
        /\ cgOut.val.val.statements = cgCall.args[1].val

\* block_stmt has been called on a list of distinct statements
C10_Witness ==
    /\ cgCall # Idle
    /\ cgCall.op = "block_stmt"
    /\ Len(cgCall.args[1].val) = 2
    /\ cgCall.args[1].val[1] # cgCall.args[1].val[2]


\* C11: two references used as keys compare equal exactly when they are
\* the same address; two allocations alike in content are different keys.
C11_IdentityEq ==
    keyOut.op = "eq" => (keyOut.val <=> keyIn.a = keyIn.b)


\* C12: display of a node that holds an Assembly, RevertNamedArgs or Try
\* statement, an ArraySlice or NamedFunctionCall expression, or a Function
\* or Rational type, at any depth, panics and gives no text.
C12_UnsupportedIsFatal ==
    (docOut # Idle /\ docIn.holds # {}) => docOut = Panic

\* display has panicked on each of the seven constructs two levels down
C12_Witness ==
    /\ docOut = Panic
    /\ docIn.depth = 2
    /\ docIn.holds # {}


\* C13: param_to_event_param on a parameter without a name, and
\* params_to_event_params on a list that holds one, panic.
C13_RequiresNamed ==
    /\ (cgCall # Idle /\ cgCall.op = "param_to_event_param"
            /\ cgCall.args[1].val.name = None)
        => cgOut = Panic
    /\ (cgCall # Idle /\ cgCall.op = "params_to_event_params"
            /\ \E i \in 1..Len(cgCall.args[1].val) :
                    LET slot == cgCall.args[1].val[i]
                    IN  slot[2] = None \/ slot[2][1].name = None)
        => cgOut = Panic

\* C13, as the code has it: param_to_event_param returns, for every
\* parameter, an event parameter of its type and its name, named or not;
\* params_to_event_params panics exactly when a slot of the list is empty,
\* and otherwise converts each parameter in its place.
C13_RequiresPresent ==
    LET Converted(param, ep) ==
            /\ ep.tag = "EventParameter"
            /\ ep.ty = param.ty
            /\ ep.name = param.name
            /\ ep.indexed = FALSE
    IN  /\ (cgCall # Idle /\ cgCall.op = "param_to_event_param") =>
                /\ cgOut.ok
                /\ Converted(cgCall.args[1].val, cgOut.val.val)
        /\ (cgCall # Idle /\ cgCall.op = "params_to_event_params") =>
                LET params == cgCall.args[1].val
                IN  IF \E i \in 1..Len(params) : params[i][2] = None
                    THEN cgOut = Panic
                    ELSE /\ cgOut.ok
                         /\ Len(cgOut.val.val) = Len(params)
                         /\ \A i \in 1..Len(params) :
                                Converted(params[i][2][1], cgOut.val.val[i])

\* params_to_event_params has converted a list of a named and an unnamed
\* parameter
C13_Witness ==
    /\ cgCall # Idle
    /\ cgCall.op = "params_to_event_params"
    /\ Len(cgCall.args[1].val) = 2
    /\ cgCall.args[1].val[1][2] # None
    /\ cgCall.args[1].val[2][2] # None
    /\ cgCall.args[1].val[1][2][1].name # None
    /\ cgCall.args[1].val[2][2][1].name = None
    /\ cgOut.ok

\* C14: params_to_args on n parameters, all present and named, returns n
\* expressions, the i-th Variable(name of the i-th parameter); it panics
\* when a slot is empty or a parameter has no name, as param_to_arg does on
\* a parameter without a name.
C14_ParamsToArgs ==
    /\ (cgCall # Idle /\ cgCall.op = "params_to_args") =>
            LET params == cgCall.args[1].val
            IN  IF \E i \in 1..Len(params) :
                        params[i][2] = None \/ params[i][2][1].name = None
                THEN cgOut = Panic
                ELSE /\ cgOut.ok
                     /\ Len(cgOut.val.val) = Len(params)
                     /\ \A i \in 1..Len(params) :
                            /\ cgOut.val.val[i].tag = "Variable"
                            /\ cgOut.val.val[i].id.name = params[i][2][1].name[1].name
    /\ (cgCall # Idle /\ cgCall.op = "param_to_arg") =>
            LET param == cgCall.args[1].val
            IN  IF param.name = None THEN cgOut = Panic
                ELSE /\ cgOut.ok
                     /\ cgOut.val.val.tag = "Variable"
                     /\ cgOut.val.val.id.name = param.name[1].name

\* params_to_args has returned the arguments of two parameters of different
\* names
C14_Witness ==
    /\ cgCall # Idle
    /\ cgCall.op = "params_to_args"
    /\ cgOut.ok
    /\ Len(cgOut.val.val) = 2
    /\ cgOut.val.val[1].id.name # cgOut.val.val[2].id.name


\* C15: function_def(name, params, ret, body) is a FunctionDefinition of
\* ty Function with the name given, params and body as given, the one
\* attribute Visibility(Public), and returns empty when ret is absent and
\* one unnamed parameter of type ret when it is present.
C15_FunctionDef ==
    (cgCall # Idle /\ cgCall.op = "function_def") =>
        LET name == cgCall.args[1].val
            params == cgCall.args[2].val
            ret == cgCall.args[3].val
            body == cgCall.args[4].val
            fd == cgOut.val.val
        IN  /\ cgOut.ok
            /\ fd.ty = "Function"
            /\ fd.name # None
            /\ fd.name[1].name = name
            /\ fd.params = params
            /\ fd.body = Some(body)
            /\ Len(fd.attributes) = 1
            /\ fd.attributes[1].tag = "Visibility"
            /\ fd.attributes[1].inner.tag = "Public"
            /\ IF ret = None THEN fd.returns = <<>>
               ELSE /\ Len(fd.returns) = 1
                    /\ fd.returns[1][2] # None
                    /\ fd.returns[1][2][1].name = None
                    /\ fd.returns[1][2][1].ty.tag = "Type"
                    /\ fd.returns[1][2][1].ty.ty = ret[1]

\* function_def has been called with a return type and with parameters
C15_Witness ==
    /\ cgCall # Idle
    /\ cgCall.op = "function_def"
    /\ cgCall.args[3].val # None
    /\ Len(cgCall.args[2].val) = 2
    /\ Len(cgOut.val.val.returns) = 1

\* C16: event_def(name, params) has the name given, is not anonymous, and
\* every field of it is non-indexed, whatever params is.
C16_EventDefNonIndexed ==
    (cgCall # Idle /\ cgCall.op = "event_def") =>
        /\ cgOut.ok
        /\ cgOut.val.val.name.name = cgCall.args[1].val
        /\ cgOut.val.val.anonymous = FALSE
        /\ \A i \in 1..Len(cgOut.val.val.fields) :
                cgOut.val.val.fields[i].indexed = FALSE

\* C16, as the code has it: event_def(name, params) has the name given, is
\* not anonymous, and its fields are params as given, so they are
\* non-indexed when params are; event_parameter builds a non-indexed
\* parameter.
C16_EventDefKeepsParams ==
    /\ (cgCall # Idle /\ cgCall.op = "event_def") =>
            /\ cgOut.ok
            /\ cgOut.val.val.name.name = cgCall.args[1].val
            /\ cgOut.val.val.anonymous = FALSE
            /\ cgOut.val.val.fields = cgCall.args[2].val
    /\ (cgCall # Idle /\ cgCall.op = "event_parameter") =>
            /\ cgOut.ok
            /\ cgOut.val.val.indexed = FALSE

\* event_def has been called on a list that holds an indexed parameter
C16_Witness ==
    /\ cgCall # Idle
    /\ cgCall.op = "event_def"
    /\ \E i \in 1..Len(cgCall.args[2].val) : cgCall.args[2].val[i].indexed
    /\ cgOut.ok

\* C17: emit_stmt(name, args) is Emit(FunctionCall(Variable(name), args))
\* and call_expr(name, args) the FunctionCall in it, args in the order
\* given; emit_stmt("Hit", [var_expr("x")]) is
\* Emit(FunctionCall(Variable("Hit"), [Variable("x")])) with every location
\* Codegen.
C17_EmitStmt ==
    LET Call(name, args) ==
            [tag |-> "FunctionCall", loc |-> LocCodegen,
             fn |-> [tag |-> "Variable",
                     id |-> [tag |-> "Identifier", loc |-> LocCodegen,
                             name |-> name]],
             args |-> args]
        VarX == [tag |-> "Variable",
                 id |-> [tag |-> "Identifier", loc |-> LocCodegen,
                         name |-> <<"x">>]]
    IN  /\ (cgCall # Idle /\ cgCall.op = "call_expr") =>
                /\ cgOut.ok
                /\ cgOut.val.val = Call(cgCall.args[1].val, cgCall.args[2].val)
        /\ (cgCall # Idle /\ cgCall.op = "emit_stmt") =>
                /\ cgOut.ok
                /\ cgOut.val.val =
                        [tag |-> "Emit", loc |-> LocCodegen,
                         expr |-> Call(cgCall.args[1].val, cgCall.args[2].val)]
        /\ (cgCall # Idle /\ cgCall.op = "emit_stmt"
                /\ cgCall.args[1].val = <<"H", "i", "t">>
                /\ cgCall.args[2].val = <<VarX>>) =>
                /\ cgOut.val.val =
                        [tag |-> "Emit", loc |-> LocCodegen,
                         expr |-> Call(<<"H", "i", "t">>, <<VarX>>)]
                /\ RelocVal(StampCodegen, cgOut.val) = cgOut.val.val

\* emit_stmt("Hit", [var_expr("x")]) has been called
C17_Witness ==
    /\ cgCall # Idle
    /\ cgCall.op = "emit_stmt"
    /\ cgCall.args[1].val = <<"H", "i", "t">>
    /\ cgCall.args[2].val = <<var_expr(<<"x">>)>>
    /\ cgOut.ok


\* C18: begin_range and end_range leave the receiver as it was; on
\* File(f, s, e) they return File(f, s, s) and File(f, e, e), on a sentinel
\* the sentinel; applying either to its own result gives the result again.
C18_RangePure ==
    LET Sentinels == {"Builtin", "CommandLine", "Implicit", "Codegen"}
        File(f, s, e) == [tag |-> "File", file_no |-> f, start |-> s, end |-> e]
    IN  /\ locOut.op = "begin_range" =>
                /\ locA = locOut.self
                /\ locA.tag = "File" =>
                        locOut.val = File(locA.file_no, locA.start, locA.start)
                /\ locA.tag \in Sentinels => locOut.val = [tag |-> locA.tag]
                /\ begin_range(locOut.val) = locOut.val
        /\ locOut.op = "end_range" =>
                /\ locA = locOut.self
                /\ locA.tag = "File" =>
                        locOut.val = File(locA.file_no, locA.end, locA.end)
                /\ locA.tag \in Sentinels => locOut.val = [tag |-> locA.tag]
                /\ end_range(locOut.val) = locOut.val

\* begin_range has been called on a File location whose ends differ
C18_Witness ==
    /\ locOut.op = "begin_range"
    /\ locA.tag = "File"
    /\ locA.start # locA.end
    /\ locOut.val # locA

\* C19: on two File locations use_end_from(other) writes other.end to
\* self.end and use_start_from(other) other.start to self.start, and
\* nothing else of self; other is never written; when self or other is a
\* sentinel the call panics and self is as it was.
C19_Splice ==
    LET File(f, s, e) == [tag |-> "File", file_no |-> f, start |-> s, end |-> e]
        before == locOut.self
        other == locOut.other
        both == before.tag = "File" /\ other.tag = "File"
    IN  /\ locOut.op = "use_end_from" =>
                /\ locB = other
                /\ locOut.ok <=> both
                /\ both => locA = File(before.file_no, before.start, other.end)
                /\ ~both => locA = before
        /\ locOut.op = "use_start_from" =>
                /\ locB = other
                /\ locOut.ok <=> both
                /\ both => locA = File(before.file_no, other.start, before.end)
                /\ ~both => locA = before

\* use_end_from has spliced the end of a location of another file
C19_Witness ==
    /\ locOut.op = "use_end_from"
    /\ locOut.ok
    /\ locOut.self.file_no # locOut.other.file_no
    /\ locOut.self.end # locOut.other.end
    /\ locA # locOut.self


\* C20: display of a FunctionDefinition without a name panics when its ty
\* is Function, Fallback, Receive or Modifier; for a Constructor with a
\* body it gives a text that begins with "constructor", a blank and the
\* parameter list, which is "constructor ()" when there are no parameters.
C20_NamelessFunction ==
    (docOut # Idle /\ docIn.kind = "FunctionDefinition"
        /\ docIn.val.name = None) =>
        LET fd == docIn.val
            head == Str.constructor \o <<" ">> \o ParamListDoc(fd.params).val
            empty == <<"c", "o", "n", "s", "t", "r", "u", "c", "t", "o", "r",
                       " ", "(", ")">>
        IN  /\ fd.ty \in {"Function", "Fallback", "Receive", "Modifier"} =>
                    docOut = Panic
            /\ (fd.ty = "Constructor" /\ fd.body # None) =>
                    /\ docOut.ok
                    /\ Len(docOut.val) > Len(head)
                    /\ SubSeq(docOut.val, 1, Len(head)) = head
                    /\ fd.params = <<>> => SubSeq(docOut.val, 1, 14) = empty

\* display has panicked on a nameless receive function that has a body
C20_Witness ==
    /\ docOut = Panic
    /\ docIn.kind = "FunctionDefinition"
    /\ docIn.val.name = None
    /\ docIn.val.ty = "Receive"
    /\ docIn.val.body # None


\* C26: for two Loc values a and b, a == b holds exactly when compare(a, b)
\* is Equal, and exactly one of a < b, a == b, a > b holds.
C26_OrdAgreesWithEq ==
    locOut.op = "cmp" =>
        LET lt == locOut.ord = "Less"
            gt == locOut.ord = "Greater"
        IN  /\ locOut.eq <=> locOut.ord = "Equal"
            /\ \/ lt /\ ~locOut.eq /\ ~gt
               \/ ~lt /\ locOut.eq /\ ~gt
               \/ ~lt /\ ~locOut.eq /\ gt

\* C27: two references to a ContractDefinition, a FunctionDefinition or an
\* Expression that are equal under == have the same hash.
C27_KeyHashConsistent ==
    keyOut.op = "hash" =>
        (RefEq(keyIn.heap, keyIn.a, keyIn.b) => keyOut.a = keyOut.b)

\* C29: begin_range, end_range, use_end_from and use_start_from, on File
\* locations with start <= end, give File locations with start <= end and
\* the file number of the receiver.
C29_WellFormedKept ==
    LET WellFormed(l) == l.tag = "File" /\ l.start <= l.end
    IN  /\ (locOut.op \in {"begin_range", "end_range"} /\ WellFormed(locOut.self)) =>
                /\ WellFormed(locOut.val)
                /\ locOut.val.file_no = locOut.self.file_no
        /\ (locOut.op \in {"use_end_from", "use_start_from"}
                /\ WellFormed(locOut.self) /\ WellFormed(locOut.other)) =>
                /\ WellFormed(locA)
                /\ locA.file_no = locOut.self.file_no


\* C22: display of a Statement that is not an Assembly, RevertNamedArgs or
\* Try statement, and whose children all print, gives a text.
C22_OtherStatementsPrint ==
    (docOut # Idle /\ docIn.kind = "Statement" /\ docIn.depth = 0
        /\ docIn.val.tag \notin {"Assembly", "RevertNamedArgs", "Try"})
        => docOut.ok

\* C30: display of a FunctionDefinition that has a name, or is a
\* Constructor, and whose parameters, attributes, returns and body, if it
\* has one, print, gives a text, with or without a body.
C30_FunctionDefinitionPrints ==
    (docOut # Idle /\ docIn.kind = "FunctionDefinition"
        /\ (docIn.val.name # None \/ docIn.val.ty = "Constructor"))
        => docOut.ok


\* C21: the text of a contract holds its parts in the order of the parts
\* list, the text of a source unit its parts in the order of the sequence,
\* and the text of a function definition its attributes in the order of
\* the attributes list, each of them once.
C21_OrderKept ==
    LET Name(d) == d.inner.name.name
        \* the words that open the text of a part or of an attribute
        Key(x) ==
            CASE x.tag = "EventDefinition" -> Str.event \o <<" ">> \o Name(x)
              [] x.tag = "ContractDefinition" ->
                    Str.contract \o <<" ">> \o Name(x)
              [] x.tag = "TypeDefinition" ->
                    <<"t", "y", "p", "e", " ">> \o Name(x)
              [] x.tag = "FunctionDefinition" ->
                    Str.function \o <<" ">> \o x.inner.name[1].name
              [] x.tag = "Visibility" -> Str.public
              [] x.tag = "Mutability" -> Str.view
        At(text, pat) ==
            {i \in 1..(Len(text) + 1 - Len(pat)) :
                SubSeq(text, i, i + Len(pat) - 1) = pat}
        InOrder(text, xs) ==
            LET named == {i \in 1..Len(xs) : xs[i].tag # "StraySemicolon"}
            IN  /\ \A i \in named : Cardinality(At(text, Key(xs[i]))) = 1
                /\ \A i, j \in named :
                        i < j => \A p \in At(text, Key(xs[i])) :
                                    \A q \in At(text, Key(xs[j])) : p < q
    IN  (docOut # Idle /\ docOut.ok) =>
            /\ docIn.kind \in {"ContractDefinition", "SourceUnit"} =>
                    InOrder(docOut.val, docIn.val.parts)
            /\ docIn.kind = "FunctionDefinition" =>
                    InOrder(docOut.val, docIn.val.attributes)

\* a contract whose parts are event B and then event A has been displayed
C21_Witness ==
    /\ docOut # Idle
    /\ docOut.ok
    /\ docIn.kind = "ContractDefinition"
    /\ Len(docIn.val.parts) = 2
    /\ docIn.val.parts[1].tag = "EventDefinition"
    /\ docIn.val.parts[1].inner.name.name = <<"B">>
    /\ docIn.val.parts[2].tag = "EventDefinition"

\* C23: display of a source unit whose parts are contracts, events,
\* functions, type definitions and stray semicolons that print by
\* themselves or in a contract gives a text.
C23_TopLevelPrints ==
    (docOut # Idle /\ docIn.kind = "SourceUnit") => docOut.ok


\* C25: two nodes of one type that both display and are not equal have
\* different texts, among them contracts of different kinds, a checked and
\* an unchecked block, an anonymous and a plain event, the mutabilities
\* Constant and View, and number literals of different exponents.
C25_DisplayInjective ==
    (eqOut.op = "display" /\ eqOut.a.ok /\ eqOut.b.ok /\ ~PtEq(eqA, eqB))
        => eqOut.a.val # eqOut.b.val


\* C24: once timeout_after has returned its timeout error, the worker
\* takes no further step: it does not run f, send or return a value.
C24_WorkerStopped ==
    [][(tmCaller.pc = "returned" /\ tmCaller.result.tag = "Err")
            => tmWorker' = tmWorker]_vars

\* C28: timeout_after returns Ok with the value f produced, and it returns
\* the timeout error only when d has elapsed with the worker still
\* running: never before d, for a worker that has panicked.
C28_TimeoutOnlyAtDeadline ==
    tmCaller.pc = "returned" =>
        /\ tmCaller.result.tag = "Ok" => tmCaller.result.val = tmF.val
        /\ tmCaller.result.tag = "Err" =>
                /\ tmCaller.elapsed
                /\ tmF.ends # "panics"

====
